---- MODULE Spec2Model ----
(***************************************************************************)
(* A model of the influxdb3 GORM driver: the row materializers             *)
(* (QueryRows, the two InfluxDBRows variants and their driverRows          *)
(* wrappers), the driver facade (Create / Query / Update / Delete and the  *)
(* ExecContext path through translateQuery), the error translator and the  *)
(* line-protocol encoder.                                                  *)
(*                                                                         *)
(* Go values are records [k |-> kind, v |-> payload]; a float64 payload is *)
(* the number of tenths (39 is 3.9).  Texts that the code inspects         *)
(* character by character are sequences of one-character strings.          *)
(***************************************************************************)
EXTENDS Integers, Sequences, FiniteSets, TLC

VARIABLES
    \* ---- one result stream (QueryRows / InfluxDBRows / driverRows)
    impl,       \* which type wraps the iterator: "none" before construction
    Iterator,   \* the backend's QueryIterator
    rowData,    \* r.rowData
    columns,    \* r.columns
    current,    \* r.current
    err,        \* r.err
    skipNext,   \* r.skipNext (rows.go)
    dest,       \* the caller's Scan destinations (the cells the pointers name)
    drv,        \* the []driver.Value handed to driverRows.Next
    ret,        \* what the last call returned
    pulls,      \* how many calls of Next returned true
    \* ---- the driver facade
    Client,     \* the backend client: calls made so far, the last text sent
    RowsAffected,
    call,       \* the last facade call: its name, input, and result
    \* ---- the error translator
    terr,       \* the error handed to TranslateError and what it returned
    \* ---- the write encoder
    stmt,       \* the statement handed to buildLineProtocol
    line        \* the line it produced

vars == <<impl, Iterator, rowData, columns, current, err, skipNext, dest, drv,
          ret, pulls, Client, RowsAffected, call, terr, stmt, line>>

rowVars == <<impl, Iterator, rowData, columns, current, err, skipNext, dest,
             drv, ret, pulls>>
facadeVars == <<Client, RowsAffected, call>>
encVars == <<stmt, line>>

(***************************************************************************)
(* Bounds of the model.                                                    *)
(***************************************************************************)
MaxRows == 2      \* rows one iterator yields
MaxDest == 2      \* length of the []driver.Value handed to driverRows.Next
MaxCalls == 2     \* backend calls per run of the facade
MaxFields == 2    \* field descriptors of one schema
MaxFrags == 2     \* fragments an error text is put together from
MaxLeaves == 2    \* leaves of one predicate list

(***************************************************************************)
(* Go values and errors.                                                   *)
(***************************************************************************)
V(k, v) == [k |-> k, v |-> v]
Nil == V("nil", 0)

E(kind, col, src, dst) == [kind |-> kind, col |-> col, src |-> src, dst |-> dst]
NoErr == E("nil", "", "", "")
IsErr(e) == e.kind # "nil"

Range(s) == {s[i] : i \in DOMAIN s}
Perms(S) == {p \in [1..Cardinality(S) -> S] : \A i, j \in 1..Cardinality(S) : p[i] = p[j] => i = j}
Min(a, b) == IF a < b THEN a ELSE b

\* int64(f) / int(f) of a float64 given in tenths: the fraction is dropped.
TruncRound(t) == (t + 5) \div 10
TruncFloor(t) == t \div 10
TruncF64(t) == IF t >= 0 THEN t \div 10 ELSE -((-t) \div 10)

\* fmt.Sprintf("%v", f) of a float64 given in tenths.
FmtFloat(t) ==
    LET a == IF t >= 0 THEN t ELSE -t
        s == IF t >= 0 THEN "" ELSE "-"
    IN  IF a % 10 = 0 THEN s \o ToString(a \div 10)
        ELSE s \o ToString(a \div 10) \o "." \o ToString(a % 10)

\* The RFC 3339 text of instant n, and time.Parse(time.RFC3339, s).
RFC3339(n) == "2024-01-0" \o ToString(n) \o "T00:00:00Z"
ParseRFC3339(s) ==
    IF \E n \in 1..2 : s = RFC3339(n)
    THEN [ok |-> TRUE, t |-> CHOOSE n \in 1..2 : s = RFC3339(n)]
    ELSE [ok |-> FALSE, t |-> 0]

\* time.Time.String() of instant n, which %v prints; instant 0 is time.Time{}
TimeString(n) ==
    IF n = 0 THEN "0001-01-01 00:00:00 +0000 UTC"
    ELSE "2024-01-0" \o ToString(n) \o " 00:00:00 +0000 UTC"

\* time.Time.UnixNano() of instant n, in decimal
UnixNano(n) == ToString(1704067200 + (n - 1) * 86400) \o "000000000"

\* fmt.Sprintf("%v", val)
Sprint(val) ==
    CASE val.k \in {"int", "int32", "int64"} -> ToString(val.v)
      [] val.k = "float64" -> FmtFloat(val.v)
      [] val.k = "bool" -> IF val.v THEN "true" ELSE "false"
      [] val.k = "string" -> val.v
      [] val.k = "time" -> TimeString(val.v)
      [] OTHER -> "<nil>"

(***************************************************************************)
(* The backend iterator (influxdb3.QueryIterator): Next, Value, Err.       *)
(* A row is [nil |-> BOOLEAN, m |-> the map]; the iterator yields at most  *)
(* MaxRows rows and then ends, with or without an error.                   *)
(***************************************************************************)
EmptyMap == [c \in {} |-> Nil]
NilRow == [nil |-> TRUE, m |-> EmptyMap]
Row(m) == [nil |-> FALSE, m |-> m]

RowPool ==
    { Row(("a" :> V("float64", 39)) @@ ("duration" :> V("float64", 39))),
      Row("a" :> V("float64", -39)),
      Row("a" :> V("int64", 5)),
      Row("a" :> V("int", 5)),
      Row("a" :> Nil),
      Row(("a" :> V("int32", 5)) @@ ("b" :> V("string", "x"))),
      Row(("a" :> V("bool", TRUE)) @@ ("b" :> V("time", 1))),
      Row(EmptyMap),
      NilRow }

NilIterator == [nil |-> TRUE, n |-> 0, cur |-> NilRow, done |-> TRUE, err |-> FALSE]
NewIterator == [nil |-> FALSE, n |-> 0, cur |-> NilRow, done |-> FALSE, err |-> FALSE]

\* The outcomes of Iterator.Next(): [ok, it].
IterNext(it) ==
    IF it.done THEN {[ok |-> FALSE, it |-> it]}
    ELSE {[ok |-> TRUE, it |-> [it EXCEPT !.n = @ + 1, !.cur = r]] :
              r \in IF it.n < MaxRows THEN RowPool ELSE {}}
         \cup {[ok |-> FALSE, it |-> [it EXCEPT !.done = TRUE, !.err = e]] : e \in BOOLEAN}
IterValue(it) == it.cur
\* Mutant: the iterator's error is never seen.
IterErrNever(it) == FALSE

IterErr(it) == it.err

\* The orders in which `for key := range rowData` may append the keys.
KeyOrders(row) == Perms(DOMAIN row.m)

(***************************************************************************)
(* Next of the three row types.                                            *)
(***************************************************************************)
Returned(op, ok, e) == [op |-> op, ok |-> ok, err |-> e]

\* Mutant: the column list is rebuilt from every row.
ColumnsRefreshed(cols, row) == KeyOrders(row)

\* QueryRows.Next: `if len(r.columns) == 0 && len(r.rowData) > 0 { append keys }`
QColumnsAfter(cols, row) ==
    IF Len(cols) = 0 /\ DOMAIN row.m # {} THEN KeyOrders(row) ELSE {cols}

\* InfluxDBRows.Next (dialector.go): `if len(r.columns) == 0 { columns = keys }`
DColumnsAfter(cols, row) ==
    IF Len(cols) = 0 THEN KeyOrders(row) ELSE {cols}

\* InfluxDBRows.Next (rows.go): `if len(r.columns) == 0 { columns = keys }`
RColumnsAfter(cols, row) ==
    IF Len(cols) = 0 THEN KeyOrders(row) ELSE {cols}

\* QueryRows.Next
QNext ==
    /\ impl = "QueryRows"
    /\ UNCHANGED <<impl, skipNext, dest, drv>>
    /\ UNCHANGED <<Client, RowsAffected, call, terr, stmt, line>>
    /\ IF Iterator.nil
       THEN /\ err' = E("iterNil", "", "", "")
            /\ ret' = Returned("Next", FALSE, NoErr)
            /\ UNCHANGED <<Iterator, rowData, columns, current, pulls>>
       ELSE \/ \E o \in IterNext(Iterator) :
               /\ Iterator' = o.it
               /\ IF o.ok
                  THEN /\ rowData' = IterValue(o.it)
                       /\ IF rowData'.nil
                          THEN /\ err' = E("rowNil", "", "", "")
                               /\ current' = FALSE
                               /\ ret' = Returned("Next", FALSE, NoErr)
                               /\ UNCHANGED <<columns, pulls>>
                          ELSE /\ current' = TRUE
                               /\ columns' \in QColumnsAfter(columns, rowData')
                               /\ ret' = Returned("Next", TRUE, NoErr)
                               /\ pulls' = pulls + 1
                               /\ UNCHANGED err
                  ELSE /\ current' = FALSE
                       /\ err' = IF IterErr(o.it) THEN E("iterErr", "", "", "") ELSE err
                       /\ ret' = Returned("Next", FALSE, NoErr)
                       /\ UNCHANGED <<rowData, columns, pulls>>
            \* Iterator.Next() panics (an iterator that has not ended and
            \* whose reader is broken); the deferred function recovers, and
            \* the iterator is left as it was or stopped with an error
            \/ /\ ~Iterator.done
               /\ Iterator' \in {Iterator, [Iterator EXCEPT !.done = TRUE, !.err = TRUE]}
               /\ err' = E("panic", "", "", "")
               /\ current' = FALSE
               /\ ret' = Returned("Next", FALSE, NoErr)
               /\ UNCHANGED <<rowData, columns, pulls>>

\* InfluxDBRows.Next of dialector.go, as a step on the fields: the set of
\* [Iterator, rowData, columns, current, err, ok] it may leave.
DNextFrom(it, row, cols, cur, e) ==
    IF it.nil
    THEN {[Iterator |-> it, rowData |-> row, columns |-> cols,
           current |-> cur, err |-> E("iterNil", "", "", ""), ok |-> FALSE]}
    ELSE UNION {
        IF o.ok
        THEN IF IterValue(o.it).nil
             THEN {[Iterator |-> o.it, rowData |-> IterValue(o.it), columns |-> cols,
                    current |-> FALSE, err |-> E("rowNil", "", "", ""), ok |-> FALSE]}
             ELSE {[Iterator |-> o.it, rowData |-> IterValue(o.it), columns |-> c,
                    current |-> TRUE, err |-> e, ok |-> TRUE] :
                        c \in DColumnsAfter(cols, IterValue(o.it))}
        ELSE {[Iterator |-> o.it, rowData |-> row, columns |-> cols,
               current |-> FALSE,
               err |-> IF IterErr(o.it) THEN E("iterErr", "", "", "") ELSE e,
               ok |-> FALSE]}
        : o \in IterNext(it)}

\* InfluxDBRows.Next of rows.go: the set of [Iterator, columns, skipNext, err, ok].
RNextFrom(it, cols, skip, e) ==
    IF it.nil
    THEN {[Iterator |-> it, columns |-> cols, skipNext |-> skip,
           err |-> E("iterNil", "", "", ""), ok |-> FALSE]}
    ELSE IF skip
    THEN {[Iterator |-> it, columns |-> cols, skipNext |-> FALSE,
           err |-> e, ok |-> TRUE]}
    ELSE UNION {
        IF o.ok
        THEN {[Iterator |-> o.it, columns |-> c, skipNext |-> FALSE, err |-> e,
               ok |-> TRUE] : c \in RColumnsAfter(cols, IterValue(o.it))}
        ELSE {[Iterator |-> o.it, columns |-> cols, skipNext |-> FALSE,
               err |-> e, ok |-> FALSE]}
        : o \in IterNext(it)}

\* InfluxDBRows.Next (dialector.go) called by the consumer
DNext ==
    /\ impl = "DialectorGo"
    /\ \E o \in DNextFrom(Iterator, rowData, columns, current, err) :
        /\ Iterator' = o.Iterator
        /\ rowData' = o.rowData
        /\ columns' = o.columns
        /\ current' = o.current
        /\ err' = o.err
        /\ ret' = Returned("Next", o.ok, NoErr)
        /\ pulls' = IF o.ok THEN pulls + 1 ELSE pulls
    /\ UNCHANGED <<impl, skipNext, dest, drv>>
    /\ UNCHANGED <<Client, RowsAffected, call, terr, stmt, line>>

\* InfluxDBRows.Next (rows.go) called by the consumer
RNext ==
    /\ impl = "RowsGo"
    /\ \E o \in RNextFrom(Iterator, columns, skipNext, err) :
        /\ Iterator' = o.Iterator
        /\ columns' = o.columns
        /\ skipNext' = o.skipNext
        /\ err' = o.err
        /\ ret' = Returned("Next", o.ok, NoErr)
        /\ pulls' = IF o.ok /\ ~skipNext THEN pulls + 1 ELSE pulls
    /\ UNCHANGED <<impl, rowData, current, dest, drv>>
    /\ UNCHANGED <<Client, RowsAffected, call, terr, stmt, line>>

(***************************************************************************)
(* Scan.  A destination is a cell [k |-> kind, v |-> content]: the kinds   *)
(* are the pointer types *string, *int, *int64, *float64, *bool,           *)
(* *time.Time and *any, a nil pointer ("nilptr") and a value that is no    *)
(* pointer ("nonptr").                                                     *)
(***************************************************************************)
Zero(k) ==
    CASE k = "string" -> ""
      [] k \in {"int", "int64", "float64", "time"} -> 0
      [] k = "bool" -> FALSE
      [] OTHER -> Nil

Cell(k) == [k |-> k, v |-> Zero(k)]
Converted(ok, cell, e) == [ok |-> ok, cell |-> cell, err |-> e]

\* QueryRows.Scan, one column with a non-nil source and a valid pointer:
\* assign when the source type is assignable, else convert by the
\* destination's kind.
QConvert(cell, val, col) ==
    IF cell.k = "any" THEN Converted(TRUE, [cell EXCEPT !.v = val], NoErr)
    ELSE IF val.k = cell.k THEN Converted(TRUE, [cell EXCEPT !.v = val.v], NoErr)
    ELSE CASE cell.k = "string" ->
                Converted(TRUE, [cell EXCEPT !.v = Sprint(val)], NoErr)
           [] cell.k \in {"int", "int64"} ->
                IF val.k = "float64"
                THEN Converted(TRUE, [cell EXCEPT !.v = TruncF64(val.v)], NoErr)
                ELSE Converted(FALSE, cell, E("coercion", col, val.k, "int"))
           [] cell.k = "float64" ->
                Converted(FALSE, cell, E("coercion", col, val.k, "float"))
           [] cell.k = "bool" ->
                Converted(FALSE, cell, E("coercion", col, val.k, "bool"))
           [] OTHER ->
                Converted(FALSE, cell, E("unsupported", col, val.k, cell.k))

Scanned(e, d) == [err |-> e, dest |-> d]

\* QueryRows.Scan: the loop over the columns, from column i on.
RECURSIVE QScanCols(_, _, _, _)
QScanCols(i, cols, m, d) ==
    IF i > Len(cols) THEN Scanned(NoErr, d)
    ELSE IF cols[i] \notin DOMAIN m THEN Scanned(E("noColumn", cols[i], "", ""), d)
    ELSE IF m[cols[i]].k = "nil"
    THEN QScanCols(i + 1, cols, m, d)
    ELSE IF d[i].k = "nonptr" THEN Scanned(E("notPointer", cols[i], "", ""), d)
    ELSE IF d[i].k = "nilptr" THEN Scanned(E("nilPointer", cols[i], "", ""), d)
    ELSE LET c == QConvert(d[i], m[cols[i]], cols[i])
         IN  IF c.ok THEN QScanCols(i + 1, cols, m, [d EXCEPT ![i] = c.cell])
             ELSE Scanned(c.err, d)

\* Mutant: the arity check is missing and the common prefix is scanned.
QScanNoArity(e, cur, row, cols, d) ==
    IF IsErr(e) THEN Scanned(e, d)
    ELSE IF ~cur THEN Scanned(E("noCurrentRow", "", "", ""), d)
    ELSE IF row.nil THEN Scanned(E("rowNil", "", "", ""), d)
    ELSE IF Len(cols) = 0 THEN Scanned(E("noColumns", "", "", ""), d)
    ELSE QScanCols(1, SubSeq(cols, 1, Min(Len(cols), Len(d))), row.m, d)

\* Mutant: Scan does not look at the recorded error.
QScanIgnoresErr(e, cur, row, cols, d) ==
    IF ~cur THEN Scanned(E("noCurrentRow", "", "", ""), d)
    ELSE IF row.nil THEN Scanned(E("rowNil", "", "", ""), d)
    ELSE IF Len(cols) = 0 THEN Scanned(E("noColumns", "", "", ""), d)
    ELSE IF Len(d) # Len(cols) THEN Scanned(E("arity", "", "", ""), d)
    ELSE QScanCols(1, cols, row.m, d)

\* QueryRows.Scan
QScanResult(e, cur, row, cols, d) ==
    IF IsErr(e) THEN Scanned(e, d)
    ELSE IF ~cur THEN Scanned(E("noCurrentRow", "", "", ""), d)
    ELSE IF row.nil THEN Scanned(E("rowNil", "", "", ""), d)
    ELSE IF Len(cols) = 0 THEN Scanned(E("noColumns", "", "", ""), d)
    ELSE IF Len(d) # Len(cols) THEN Scanned(E("arity", "", "", ""), d)
    ELSE QScanCols(1, cols, row.m, d)

\* InfluxDBRows.Scan (dialector.go), one column: the type switch on the
\* destination, then on the source.
DConvert(cell, val, col) ==
    CASE cell.k = "string" ->
            Converted(TRUE, [cell EXCEPT !.v = IF val.k = "nil" THEN "" ELSE Sprint(val)], NoErr)
      [] cell.k \in {"int", "int64"} ->
            IF val.k \in {"int", "int64"} THEN Converted(TRUE, [cell EXCEPT !.v = val.v], NoErr)
            ELSE IF val.k = "float64" THEN Converted(TRUE, [cell EXCEPT !.v = TruncF64(val.v)], NoErr)
            ELSE IF val.k = "nil" THEN Converted(TRUE, [cell EXCEPT !.v = 0], NoErr)
            ELSE Converted(FALSE, cell, E("coercion", "", val.k, cell.k))
      [] cell.k = "float64" ->
            IF val.k = "float64" THEN Converted(TRUE, [cell EXCEPT !.v = val.v], NoErr)
            ELSE IF val.k \in {"int", "int64"} THEN Converted(TRUE, [cell EXCEPT !.v = 10 * val.v], NoErr)
            ELSE IF val.k = "nil" THEN Converted(TRUE, [cell EXCEPT !.v = 0], NoErr)
            ELSE Converted(FALSE, cell, E("coercion", "", val.k, "float64"))
      [] cell.k = "bool" ->
            IF val.k = "bool" THEN Converted(TRUE, [cell EXCEPT !.v = val.v], NoErr)
            ELSE IF val.k = "nil" THEN Converted(TRUE, [cell EXCEPT !.v = FALSE], NoErr)
            ELSE Converted(FALSE, cell, E("coercion", "", val.k, "bool"))
      [] cell.k = "time" ->
            IF val.k = "time" THEN Converted(TRUE, [cell EXCEPT !.v = val.v], NoErr)
            ELSE IF val.k = "string"
            THEN IF ParseRFC3339(val.v).ok
                 THEN Converted(TRUE, [cell EXCEPT !.v = ParseRFC3339(val.v).t], NoErr)
                 ELSE Converted(FALSE, cell, E("timeParse", "", "string", "time"))
            ELSE IF val.k = "nil" THEN Converted(TRUE, [cell EXCEPT !.v = 0], NoErr)
            ELSE Converted(FALSE, cell, E("coercion", "", val.k, "time"))
      [] cell.k = "nilptr" ->
            \* (*int)(nil): `*d = v` panics, an unconvertible source is refused first
            IF val.k \in {"int", "int64", "float64", "nil"}
            THEN Converted(FALSE, cell, E("PANIC", "", val.k, "int"))
            ELSE Converted(FALSE, cell, E("coercion", "", val.k, "int"))
      [] OTHER ->
            Converted(FALSE, cell, E("unsupportedDest", "", "", cell.k))

RECURSIVE DScanCols(_, _, _, _)
DScanCols(i, cols, m, d) ==
    IF i > Len(cols) THEN Scanned(NoErr, d)
    ELSE IF cols[i] \notin DOMAIN m THEN Scanned(E("noColumn", cols[i], "", ""), d)
    ELSE LET c == DConvert(d[i], m[cols[i]], cols[i])
         IN  IF c.ok THEN DScanCols(i + 1, cols, m, [d EXCEPT ![i] = c.cell])
             ELSE Scanned(c.err, d)

\* InfluxDBRows.Scan (dialector.go)
DScanResult(cur, row, cols, d) ==
    IF ~cur THEN Scanned(E("noCurrentRow", "", "", ""), d)
    ELSE IF Len(d) # Len(cols) THEN Scanned(E("arity", "", "", ""), d)
    ELSE DScanCols(1, cols, row.m, d)

(***************************************************************************)
(* driverRows.Next: the database/sql path.                                 *)
(***************************************************************************)
\* strings.Contains(strings.ToLower(col), "count"), over the column names used
ContainsCount(col) == col \in {"count", "COUNT(*)", "count(a)"}

\* driverRows.Next (dialector.go): the switch on the source's type
DDriverValue(col, val) ==
    CASE val.k \in {"int", "int32", "int64"} -> V("int64", val.v)
      [] val.k = "float64" ->
            IF col = "action_type" \/ col = "duration"
            THEN V("int64", TruncF64(val.v)) ELSE val
      [] OTHER -> val

\* driverRows.Next (rows.go): the switch on the source's type
RDriverValue(col, val) ==
    CASE val.k \in {"int", "int32", "int64"} -> V("int64", val.v)
      [] val.k = "float64" ->
            IF ContainsCount(col) \/ col = "action_type" \/ col = "duration"
            THEN V("int64", TruncF64(val.v)) ELSE val
      [] OTHER -> val

NilValues(n) == [i \in 1..n |-> Nil]
DriverResult(e, d) == [err |-> e, drv |-> d]

\* driverRows.Next (dialector.go) once InfluxDBRows.Next returned true
DDriverFill(cols, row, n) ==
    IF Len(cols) = 0 THEN DriverResult(NoErr, NilValues(n))
    ELSE DriverResult(NoErr,
            [i \in 1..n |->
                IF i <= Min(Len(cols), n) /\ cols[i] \in DOMAIN row.m
                THEN DDriverValue(cols[i], row.m[cols[i]]) ELSE Nil])

\* driverRows.Next (rows.go) once InfluxDBRows.Next returned true
RDriverFill(cols, row, n) ==
    IF Len(cols) = 0 \/ n = 0 THEN DriverResult(NoErr, NilValues(n))
    ELSE DriverResult(NoErr,
            [i \in 1..n |->
                IF i <= Min(Len(cols), n) /\ cols[i] \in DOMAIN row.m
                THEN RDriverValue(cols[i], row.m[cols[i]]) ELSE Nil])

\* `if err := r.Err(); err != nil { return err }; return io.EOF`
DriverEnd(e, n) == DriverResult(IF IsErr(e) THEN e ELSE E("EOF", "", "", ""), NilValues(n))

otherThanRows == <<Client, RowsAffected, call, terr, stmt, line>>

\* driverRows.Next (dialector.go)
DDriverNext ==
    /\ impl = "DialectorGo"
    /\ \E n \in 0..MaxDest, o \in DNextFrom(Iterator, rowData, columns, current, err) :
        LET r == IF o.ok THEN DDriverFill(o.columns, o.rowData, n) ELSE DriverEnd(o.err, n)
        IN  /\ Iterator' = o.Iterator
            /\ rowData' = o.rowData
            /\ columns' = o.columns
            /\ current' = o.current
            /\ err' = o.err
            /\ pulls' = IF o.ok THEN pulls + 1 ELSE pulls
            /\ drv' = r.drv
            /\ ret' = Returned("driverRows.Next", ~IsErr(r.err), r.err)
    /\ UNCHANGED <<impl, skipNext, dest>>
    /\ UNCHANGED otherThanRows

\* driverRows.Next (rows.go)
RDriverNext ==
    /\ impl = "RowsGo"
    /\ \E n \in 0..MaxDest, o \in RNextFrom(Iterator, columns, skipNext, err) :
        LET r == IF o.ok THEN RDriverFill(o.columns, IterValue(o.Iterator), n)
                 ELSE DriverEnd(o.err, n)
        IN  /\ Iterator' = o.Iterator
            /\ columns' = o.columns
            /\ skipNext' = o.skipNext
            /\ err' = o.err
            /\ pulls' = IF o.ok /\ ~skipNext THEN pulls + 1 ELSE pulls
            /\ drv' = r.drv
            /\ ret' = Returned("driverRows.Next", ~IsErr(r.err), r.err)
    /\ UNCHANGED <<impl, rowData, current, dest>>
    /\ UNCHANGED otherThanRows

\* QueryRows.Scan
QScan ==
    /\ impl = "QueryRows"
    /\ LET r == QScanResult(err, current, rowData, columns, dest)
       IN  /\ dest' = r.dest
           /\ ret' = Returned("Scan", ~IsErr(r.err), r.err)
    /\ UNCHANGED <<impl, Iterator, rowData, columns, current, err, skipNext, drv, pulls>>
    /\ UNCHANGED otherThanRows

\* InfluxDBRows.Scan (dialector.go)
DScan ==
    /\ impl = "DialectorGo"
    /\ LET r == DScanResult(current, rowData, columns, dest)
       IN  /\ dest' = r.dest
           /\ ret' = Returned("Scan", ~IsErr(r.err), r.err)
    /\ UNCHANGED <<impl, Iterator, rowData, columns, current, err, skipNext, drv, pulls>>
    /\ UNCHANGED otherThanRows

(***************************************************************************)
(* Construction of the row objects.                                        *)
(***************************************************************************)
\* Dialector.Query: `&QueryRows{Iterator: iterator, Schema: ...}`; a literal
\* QueryRows{} has a nil Iterator.
NewQueryRows ==
    /\ impl = "none"
    /\ impl' = "QueryRows"
    /\ Iterator' \in {NewIterator, NilIterator}
    /\ UNCHANGED <<rowData, columns, current, err, skipNext, dest, drv, ret, pulls>>
    /\ UNCHANGED otherThanRows

\* InfluxDBStmt.Query: `wrapRows(&InfluxDBRows{Iterator: iterator})`
NewStmtRows ==
    /\ impl = "none"
    /\ impl' \in {"RowsGo", "DialectorGo"}
    /\ Iterator' \in {NewIterator, NilIterator}
    /\ UNCHANGED <<rowData, columns, current, err, skipNext, dest, drv, ret, pulls>>
    /\ UNCHANGED otherThanRows

\* driverConn.Query (dialector.go): the rows are built and Next is called once
\* to learn the columns.
DNewConnRows ==
    /\ impl = "none"
    /\ impl' = "DialectorGo"
    /\ \E o \in DNextFrom(NewIterator, Row(EmptyMap), <<>>, FALSE, NoErr) :
        /\ Iterator' = o.Iterator
        /\ rowData' = o.rowData
        /\ columns' = o.columns
        /\ current' = o.current
        /\ err' = o.err
        /\ pulls' = IF o.ok THEN 1 ELSE 0
    /\ UNCHANGED <<skipNext, dest, drv, ret>>
    /\ UNCHANGED otherThanRows

\* driverConn.Query (rows.go variant): iterator.Next() is called once, the
\* columns are taken from that row and skipNext is set.
RNewConnRows ==
    /\ impl = "none"
    /\ impl' = "RowsGo"
    /\ \E o \in IterNext(NewIterator) :
        /\ Iterator' = o.it
        /\ skipNext' = o.ok
        /\ columns' \in IF o.ok /\ ~IterValue(o.it).nil
                        THEN KeyOrders(IterValue(o.it)) ELSE {<<>>}
        /\ pulls' = IF o.ok THEN 1 ELSE 0
    /\ UNCHANGED <<rowData, current, err, dest, drv, ret>>
    /\ UNCHANGED otherThanRows

(***************************************************************************)
(* The result stream as a state machine.                                   *)
(***************************************************************************)
DestPool ==
    { <<>>,
      <<Cell("int")>>, <<Cell("int64")>>, <<Cell("float64")>>,
      <<Cell("string")>>, <<Cell("any")>>,
      <<Cell("nilptr")>>, <<Cell("nonptr")>>,
      <<Cell("int"), Cell("int64")>>,
      <<Cell("float64"), Cell("int")>>,
      <<Cell("bool"), Cell("time")>> }

RowsIdle ==
    /\ impl = "none"
    /\ Iterator = NilIterator
    /\ rowData = NilRow
    /\ columns = <<>>
    /\ current = FALSE
    /\ err = NoErr
    /\ skipNext = FALSE
    /\ dest = <<>>
    /\ drv = <<>>
    /\ ret = Returned("none", TRUE, NoErr)
    /\ pulls = 0

FacadeIdle ==
    /\ Client = 0
    /\ RowsAffected = 0
    /\ call = 0

TranslatorIdle == terr = 0
EncoderIdle == stmt = 0 /\ line = 0

InitRows ==
    /\ impl = "none"
    /\ Iterator = NilIterator
    /\ rowData = NilRow
    /\ columns = <<>>
    /\ current = FALSE
    /\ err = NoErr
    /\ skipNext = FALSE
    /\ dest \in DestPool
    /\ drv = <<>>
    /\ ret = Returned("none", TRUE, NoErr)
    /\ pulls = 0
    /\ FacadeIdle /\ TranslatorIdle /\ EncoderIdle

NextRows ==
    \/ NewQueryRows \/ NewStmtRows \/ DNewConnRows \/ RNewConnRows
    \/ QNext \/ DNext \/ RNext
    \/ QScan \/ DScan
    \/ DDriverNext \/ RDriverNext

SpecRows == InitRows /\ [][NextRows]_vars

(***************************************************************************)
(* Properties of the result stream.                                        *)
(***************************************************************************)
\* The row the last successful pull delivered.
Pulled == IterValue(Iterator)
IntKinds == {"int", "int64"}
IntFamily == {"int", "int32", "int64"}

C3_ArityError ==
    [][ (ret'.op = "Scan" /\ Len(dest) # Len(columns)) =>
            /\ IsErr(ret'.err)
            /\ dest' = dest
            /\ (current /\ ~IsErr(err) /\ columns # <<>>) => ret'.err.kind = "arity"
      ]_vars

\* Scan was given fewer destinations than the row has columns.
C3_Witness ==
    /\ ret.op = "Scan"
    /\ ret.err.kind = "arity"
    /\ current
    /\ Len(dest) > 0
    /\ Len(columns) > Len(dest)

\* C4 as stated: driverRows.Next never returns success for a row when the
\* number of destinations differs from the number of columns (here with at
\* least one of each).
C4_DriverRowsArity ==
    ~(/\ ret.op = "driverRows.Next" /\ ret.ok
      /\ Len(columns) >= 1 /\ Len(drv) >= 1
      /\ Len(drv) # Len(columns))

\* d is the float64 t (in tenths) with its fraction dropped.
TruncatedTowardZero(t, d) ==
    /\ t >= 0 => (10 * d <= t /\ t < 10 * d + 10)
    /\ t <= 0 => (10 * d >= t /\ t > 10 * d - 10)
    /\ t = 39 => d = 3
    /\ t = -39 => d = -3

\* C5: a float64 source stored into an integer destination is truncated
\* toward zero (3.9 gives 3, -3.9 gives -3), by both Scan methods and by
\* driverRows.Next where it converts a float64 column to int64.
C5_Truncation ==
    /\ (ret.op = "Scan" /\ ret.ok) =>
            \A i \in DOMAIN dest :
                (rowData.m[columns[i]].k = "float64" /\ dest[i].k \in IntKinds)
                    => TruncatedTowardZero(rowData.m[columns[i]].v, dest[i].v)
    /\ (ret.op = "driverRows.Next" /\ ret.ok) =>
            \A i \in 1..Min(Len(drv), Len(columns)) :
                (/\ columns[i] \in DOMAIN Pulled.m
                 /\ Pulled.m[columns[i]].k = "float64"
                 /\ drv[i].k = "int64")
                    => TruncatedTowardZero(Pulled.m[columns[i]].v, drv[i].v)

\* -3.9 was scanned into an int destination.
C5_Witness ==
    /\ ret.op = "Scan" /\ ret.ok
    /\ Len(dest) = 1
    /\ rowData.m[columns[1]] = V("float64", -39)
    /\ dest[1] = [k |-> "int", v |-> -3]

\* C6 as stated, in its particular case: with a current row, no recorded
\* error and matching arity, an int64 source scanned into an int or float64
\* destination succeeds and stores the value.
C6_Int64Accepted ==
    (/\ ret.op = "Scan"
     /\ current /\ ~IsErr(err)
     /\ Len(dest) = 1 /\ Len(columns) = 1
     /\ columns[1] \in DOMAIN rowData.m
     /\ rowData.m[columns[1]].k = "int64"
     /\ dest[1].k \in {"int", "float64"})
        => /\ ret.ok
           /\ dest[1].v = IF dest[1].k = "int" THEN rowData.m[columns[1]].v
                          ELSE 10 * rowData.m[columns[1]].v

\* C7 as stated: after a successful Scan every destination whose source was
\* nil holds the zero value of its type.
C7_NilLeavesZero ==
    (ret.op = "Scan" /\ ret.ok) =>
        \A i \in DOMAIN dest :
            rowData.m[columns[i]].k = "nil" => dest[i].v = Zero(dest[i].k)

(***************************************************************************)
(* The error translator.  An error text is a sequence of words; a word is  *)
(* a phrase one of the patterns names (in some letter case), a double      *)
(* quote, a line break or other text.  An error is [id, is, msg]: `is` is  *)
(* the set of sentinel errors errors.Is finds in its chain.                *)
(***************************************************************************)
\* strings.ToLower / the (?i) flag, on the words used
Lower(w) ==
    CASE w = "MEASUREMENT " -> "measurement "
      [] w = " NOT FOUND" -> " not found"
      [] w = "Field Type Conflict" -> "field type conflict"
      [] w = "DUPLICATE DATA" -> "duplicate data"
      [] OTHER -> w

Quote == "\""
LineBreak == "\n"

Err(id, is, msg) == [id |-> id, is |-> is, msg |-> msg]
NilError == Err("nil", {}, <<>>)
ErrRecordNotFound == Err("gorm.ErrRecordNotFound", {"gorm.ErrRecordNotFound"}, <<"record not found">>)
\* errors.New(text)
ErrorsNew(text) == Err("errors.New", {}, <<text>>)
\* fmt.Errorf(prefix + ": %w", inner)
Wrap(prefix, inner) == Err("fmt.Errorf", inner.is, <<prefix>> \o inner.msg)
\* errors.Is(e, gorm.ErrRecordNotFound)
IsNotFound(e) == "gorm.ErrRecordNotFound" \in e.is

\* Mutant: the phrase is matched as written.
MatchPhraseExact(phrase, msg) == \E i \in DOMAIN msg : msg[i] = phrase

\* regexp (?i)<phrase>
MatchPhrase(phrase, msg) == \E i \in DOMAIN msg : Lower(msg[i]) = phrase

\* regexp (?i)<what> "(.+)" not found: the name is one or more characters,
\* none a line break
MatchQuotedNotFound(what, msg) ==
    \E i, j \in DOMAIN msg :
        /\ Lower(msg[i]) = what
        /\ i + 1 \in DOMAIN msg /\ msg[i + 1] = Quote
        /\ j >= i + 3 /\ msg[j] = Quote
        /\ \A k \in (i + 2)..(j - 1) : msg[k] # LineBreak
        /\ j + 1 \in DOMAIN msg /\ Lower(msg[j + 1]) = " not found"

rxMeasurementNotFound(msg) == MatchQuotedNotFound("measurement ", msg)
rxDatabaseNotFound(msg) == MatchQuotedNotFound("database ", msg)
rxDuplicateData(msg) == MatchPhrase("duplicate data", msg)
rxFieldTypeMismatch(msg) == MatchPhrase("field type conflict", msg)
rxSyntaxError(msg) == MatchPhrase("syntax error", msg)
rxInsufficientPermissions(msg) == MatchPhrase("insufficient permissions", msg)
rxServerUnavailable(msg) ==
    MatchPhrase("connection refused", msg) \/ MatchPhrase("server unavailable", msg)

\* Mutant: the database pattern is not consulted.
TranslateErrorNoDatabase(e) ==
    IF e = NilError THEN NilError
    ELSE IF IsNotFound(e) THEN e
    ELSE CASE rxMeasurementNotFound(e.msg) -> ErrRecordNotFound
           [] rxDuplicateData(e.msg) -> ErrorsNew("ERROR: duplicate data detected (23000)")
           [] rxFieldTypeMismatch(e.msg) -> ErrorsNew("ERROR: field type conflict (22001)")
           [] rxInsufficientPermissions(e.msg) -> ErrorsNew("ERROR: insufficient permissions (42000)")
           [] rxSyntaxError(e.msg) -> ErrorsNew("ERROR: syntax error (42000)")
           [] rxServerUnavailable(e.msg) -> ErrorsNew("ERROR: server unavailable (08S01)")
           [] OTHER -> e

\* Dialector.TranslateError
TranslateError(e) ==
    IF e = NilError THEN NilError
    ELSE IF IsNotFound(e) THEN e
    ELSE IF rxMeasurementNotFound(e.msg) \/ rxDatabaseNotFound(e.msg) THEN ErrRecordNotFound
    ELSE IF rxDuplicateData(e.msg) THEN ErrorsNew("ERROR: duplicate data detected (23000)")
    ELSE IF rxFieldTypeMismatch(e.msg) THEN ErrorsNew("ERROR: field type conflict (22001)")
    ELSE IF rxInsufficientPermissions(e.msg) THEN ErrorsNew("ERROR: insufficient permissions (42000)")
    ELSE IF rxSyntaxError(e.msg) THEN ErrorsNew("ERROR: syntax error (42000)")
    ELSE IF rxServerUnavailable(e.msg) THEN ErrorsNew("ERROR: server unavailable (08S01)")
    ELSE e

\* The fragments error texts are put together from.
Fragments ==
    { <<>>,
      <<"x">>,
      <<"measurement ", Quote, "foo", Quote, " not found">>,
      <<"MEASUREMENT ", Quote, "foo", Quote, " NOT FOUND">>,
      <<"measurement ", Quote, Quote, " not found">>,
      <<"measurement ", Quote, "foo", LineBreak, "bar", Quote, " not found">>,
      <<"database ", Quote, "foo", Quote, " not found">>,
      <<"field type conflict">>,
      <<"Field Type Conflict">>,
      <<"duplicate data">>,
      <<"DUPLICATE DATA">>,
      <<"insufficient permissions">>,
      <<"syntax error">>,
      <<"connection refused">>,
      <<"server unavailable">>,
      <<"invalid time precision">> }

RECURSIVE TextsOf(_)
TextsOf(n) ==
    IF n = 0 THEN {<<>>} ELSE {f \o t : f \in Fragments, t \in TextsOf(n - 1)}

\* The errors handed to TranslateError: nil, backend errors with a text, and
\* errors that wrap gorm.ErrRecordNotFound.
ErrPool ==
    {NilError, ErrRecordNotFound}
    \cup {Err("backend", {}, t) : t \in TextsOf(MaxFrags) \ {<<>>}}
    \cup {Wrap("lookup", Err("wrapped", {"gorm.ErrRecordNotFound"}, t)) : t \in Fragments}

otherThanTranslator ==
    <<impl, Iterator, rowData, columns, current, err, skipNext, dest, drv, ret,
      pulls, Client, RowsAffected, call, stmt, line>>

InitTranslator ==
    /\ terr = [in |-> NilError, out |-> NilError, done |-> FALSE]
    /\ RowsIdle /\ FacadeIdle /\ EncoderIdle

\* a caller hands an error to Dialector.TranslateError
CallTranslateError ==
    /\ \E e \in ErrPool : terr' = [in |-> e, out |-> TranslateError(e), done |-> TRUE]
    /\ UNCHANGED otherThanTranslator

SpecTranslator == InitTranslator /\ [][CallTranslateError]_vars

(***************************************************************************)
(* Properties of the error translator.                                     *)
(***************************************************************************)
\* the text contains <what> "<name>" not found, the name being one or more
\* words that are neither a quote nor a line break
SaysNotFound(what, msg) ==
    \E i, j \in DOMAIN msg :
        /\ msg[i] = what /\ i + 1 \in DOMAIN msg /\ msg[i + 1] = Quote
        /\ j >= i + 3 /\ msg[j] = Quote
        /\ \A k \in (i + 2)..(j - 1) : msg[k] \notin {Quote, LineBreak}
        /\ j + 1 \in DOMAIN msg /\ msg[j + 1] = " not found"
Says(phrase, msg) == \E i \in DOMAIN msg : msg[i] = phrase
SchemaConflict == ErrorsNew("ERROR: field type conflict (22001)")
MatchesAPattern(msg) ==
    \/ rxMeasurementNotFound(msg) \/ rxDatabaseNotFound(msg) \/ rxDuplicateData(msg)
    \/ rxFieldTypeMismatch(msg) \/ rxInsufficientPermissions(msg)
    \/ rxSyntaxError(msg) \/ rxServerUnavailable(msg)

C9_NotFoundClause ==
    (SaysNotFound("measurement ", terr.in.msg) \/ SaysNotFound("database ", terr.in.msg))
        => IsNotFound(terr.out)
C9_PassThroughClause ==
    /\ ~MatchesAPattern(terr.in.msg) => terr.out = terr.in
    /\ terr.in = NilError => terr.out = NilError

\* C9 as stated: not-found texts map to NotFound, every text containing
\* `field type conflict` maps to SchemaConflict, unmatched errors and nil are
\* returned unchanged.
C9_AsStated ==
    terr.done =>
        /\ C9_NotFoundClause
        /\ Says("field type conflict", terr.in.msg) => terr.out = SchemaConflict
        /\ C9_PassThroughClause

\* C9 (amended): as stated, but a text containing `field type conflict` maps
\* to SchemaConflict only when the error is not already a record-not-found
\* error and its text matches neither not-found pattern nor `duplicate data`,
\* which are tried first.
C9_Translation ==
    terr.done =>
        /\ C9_NotFoundClause
        /\ (/\ Says("field type conflict", terr.in.msg)
            /\ ~IsNotFound(terr.in)
            /\ ~rxMeasurementNotFound(terr.in.msg)
            /\ ~rxDatabaseNotFound(terr.in.msg)
            /\ ~rxDuplicateData(terr.in.msg)) => terr.out = SchemaConflict
        /\ C9_PassThroughClause

\* A database-not-found text that also names a field type conflict was
\* translated to the record-not-found error.
C9_Witness ==
    /\ terr.done
    /\ SaysNotFound("database ", terr.in.msg)
    /\ Says("field type conflict", terr.in.msg)
    /\ terr.out = ErrRecordNotFound

(***************************************************************************)
(* The line encoder.  A statement is [Schema, Table, Kind, Fields]; Kind   *)
(* is the kind of stmt.ReflectValue and Fields the schema's fields, each   *)
(* [DBName, TagSettings, val] with val what field.ValueOf reads.  A line   *)
(* is the sequence of the pieces the code appends.                         *)
(***************************************************************************)
Field(name, tag, val) == [DBName |-> name, TagSettings |-> tag, val |-> val]
\* Schema is "nil" or "set" and SchemaTable the table the schema names;
\* WhereExpr is the kind of value Clauses["WHERE"].Expression holds and Where
\* its Exprs; a Limit of -1 is the nil pointer.
Statement(schema, table, kind, fields) ==
    [Schema |-> schema, SchemaTable |-> table, Table |-> table, Kind |-> kind,
     Fields |-> fields, Selects |-> <<>>, WhereExpr |-> "clause.Where", Where |-> <<>>,
     Order |-> <<>>, Limit |-> -1, Offset |-> 0]

\* the isZero result of field.ValueOf
IsZeroValue(val) == val.k # "nil" /\ val.v = Zero(val.k)

\* Mutant: only nil values are skipped.
SkippedNilOnly(val) == val = Nil

\* fieldValue == nil || isZero
Skipped(val) == val = Nil \/ IsZeroValue(val)

\* Mutant: a reserved timestamp name is looked at before the tag settings.
IsTagUnlessTimeName(f) ==
    f.TagSettings \in {"GORM:TAG=TAG", "TYPE=tag"} /\ f.DBName \notin {"time", "Time", "_time"}

IsTag(f) == f.TagSettings \in {"GORM:TAG=TAG", "TYPE=tag"}
TimeNames == {"time", "Time", "_time"}
IgnoredNames == {"_measurement", "Measurement", "ID"}

MapPut(m, k, v) == [x \in DOMAIN m \cup {k} |-> IF x = k THEN v ELSE m[x]]
EmptyRecord == [tags |-> EmptyMap, fields |-> EmptyMap, timestamp |-> 0]

\* the loop over stmt.Schema.Fields, from field i on
RECURSIVE Classify(_, _, _)
Classify(i, fs, acc) ==
    IF i > Len(fs) THEN acc
    ELSE LET f == fs[i] IN
         IF Skipped(f.val) THEN Classify(i + 1, fs, acc)
         ELSE IF IsTag(f)
              THEN Classify(i + 1, fs, [acc EXCEPT !.tags = MapPut(@, f.DBName, Sprint(f.val))])
         ELSE IF f.DBName \in TimeNames
              THEN IF f.val.k = "time"
                   THEN Classify(i + 1, fs, [acc EXCEPT !.timestamp = f.val.v])
                   ELSE Classify(i + 1, fs, acc)
         ELSE IF f.DBName \notin IgnoredNames
              THEN Classify(i + 1, fs, [acc EXCEPT !.fields = MapPut(@, f.DBName, f.val)])
         ELSE Classify(i + 1, fs, acc)

\* the text of one field value
FieldText(val) ==
    CASE val.k = "string" -> "\"" \o val.v \o "\""
      [] val.k \in {"int", "int32", "int64"} -> ToString(val.v) \o "i"
      [] val.k = "float64" -> FmtFloat(val.v)
      [] val.k = "bool" -> IF val.v THEN "true" ELSE "false"
      [] OTHER -> "\"" \o Sprint(val) \o "\""

\* the pieces for the tags, in the order the map is ranged over
RECURSIVE TagPieces(_, _, _)
TagPieces(order, tags, i) ==
    IF i > Len(order) THEN <<>>
    ELSE <<",", order[i], "=", tags[order[i]]>> \o TagPieces(order, tags, i + 1)

RECURSIVE FieldPieces(_, _, _)
FieldPieces(order, fields, i) ==
    IF i > Len(order) THEN <<>>
    ELSE (IF i > 1 THEN <<",">> ELSE <<>>)
         \o <<order[i], "=", FieldText(fields[order[i]])>>
         \o FieldPieces(order, fields, i + 1)

Encoded(e, l) == [err |-> e, line |-> l]

\* buildLineProtocol: the results it can return, one per iteration order of
\* the two maps
buildLineProtocol(st) ==
    IF st.Schema = "nil" THEN {Encoded(ErrorsNew("missing schema"), <<>>)}
    ELSE IF st.Kind \notin {"struct", "ptr"} THEN {Encoded(ErrorsNew("only structs"), <<>>)}
    ELSE LET rec == Classify(1, st.Fields, EmptyRecord) IN
         { Encoded(NilError,
                   <<st.Table>>
                   \o TagPieces(to, rec.tags, 1)
                   \o <<" ">>
                   \o FieldPieces(fo, rec.fields, 1)
                   \o (IF rec.timestamp # 0 THEN <<" ", UnixNano(rec.timestamp)>> ELSE <<>>))
           : to \in Perms(DOMAIN rec.tags), fo \in Perms(DOMAIN rec.fields) }

\* the fields a record may have
FieldPool ==
    { Field(nv[1], t, nv[2]) :
        nv \in { <<"duration", V("int", 0)>>, <<"duration", V("int", 5)>>,
                 <<"duration", V("int", 9)>>,
                 <<"region", V("string", "")>>, <<"region", V("string", "US")>>,
                 <<"time", V("time", 0)>>, <<"time", V("time", 1)>>,
                 <<"time", V("string", "now")>>,
                 <<"ID", V("int", 0)>>, <<"ID", V("int", 7)>>,
                 <<"ok", V("bool", FALSE)>>, <<"ok", V("bool", TRUE)>>,
                 <<"load", V("float64", 0)>>, <<"load", V("float64", 15)>>,
                 <<"note", Nil>> },
        t \in {"", "TYPE=tag"} }
    \cup {Field("region", "GORM:TAG=TAG", V("string", "US"))}

RECURSIVE FieldSeqs(_)
FieldSeqs(n) ==
    IF n = 0 THEN {<<>>}
    ELSE FieldSeqs(n - 1) \cup
         {Append(fs, f) : fs \in {x \in FieldSeqs(n - 1) : Len(x) = n - 1}, f \in FieldPool}

StmtPool ==
    { Statement(s, "m", k, fs) :
        s \in {"nil", "set"}, k \in {"struct", "ptr", "slice"}, fs \in FieldSeqs(MaxFields) }

NotEncoded == Encoded(NilError, <<>>)

otherThanEncoder ==
    <<impl, Iterator, rowData, columns, current, err, skipNext, dest, drv, ret,
      pulls, Client, RowsAffected, call, terr>>

InitEncoder ==
    /\ stmt \in StmtPool
    /\ line = [done |-> FALSE, res |-> NotEncoded]
    /\ RowsIdle /\ FacadeIdle /\ TranslatorIdle

\* a caller encodes the statement
CallBuildLineProtocol ==
    /\ \E r \in buildLineProtocol(stmt) : line' = [done |-> TRUE, res |-> r]
    /\ UNCHANGED <<stmt>>
    /\ UNCHANGED otherThanEncoder

SpecEncoder == InitEncoder /\ [][CallBuildLineProtocol]_vars

(***************************************************************************)
(* Properties of the line encoder.                                         *)
(***************************************************************************)
\* the line has a piece `name=`
HasNameToken(l, name) ==
    \E i \in DOMAIN l : l[i] = name /\ i + 1 \in DOMAIN l /\ l[i + 1] = "="

\* field i holds the zero value of its type
HoldsZero(f) == f.val.k # "nil" /\ f.val.v = Zero(f.val.k)

\* no field of the record that holds a non-zero value bears the name of f
NameIsItsOwn(st, f) ==
    \A j \in DOMAIN st.Fields :
        st.Fields[j].DBName = f.DBName =>
            (st.Fields[j].val = Nil \/ HoldsZero(st.Fields[j]))

\* C10: a field holding the zero value of its type adds nothing to the
\* encoded line: the line has no `name=` piece for it (a piece with that name
\* can only stem from another field of the same name that holds a value).
C10_ZeroOmitted ==
    (line.done /\ line.res.err = NilError) =>
        \A i \in DOMAIN stmt.Fields :
            (HoldsZero(stmt.Fields[i]) /\ NameIsItsOwn(stmt, stmt.Fields[i]))
                => ~HasNameToken(line.res.line, stmt.Fields[i].DBName)

\* A record with a zero duration and a zero-valued tag beside a field that
\* holds a value was encoded; only the latter is in the line.
C10_Witness ==
    /\ line.done /\ line.res.err = NilError
    /\ Len(stmt.Fields) = 2
    /\ stmt.Fields[1] = Field("duration", "", V("int", 0))
    /\ stmt.Fields[2] = Field("load", "", V("float64", 15))
    /\ line.res.line = <<"m", " ", "load", "=", "1.5">>

\* the record names one backend column in two of its field descriptors
NameTwice(st) ==
    \E i, j \in DOMAIN st.Fields : i < j /\ st.Fields[i].DBName = st.Fields[j].DBName

\* C12 as stated: a record of which two field descriptors carry the same
\* backend column name is refused with an error.
C12_DuplicateNameFails ==
    (line.done /\ stmt.Schema = "set" /\ stmt.Kind \in {"struct", "ptr"} /\ NameTwice(stmt))
        => line.res.err # NilError

\* C13 as stated: encoding the same record a second time yields the line
\* the first encoding yielded.
C13_SameLineEachTime ==
    [][(line.done /\ line'.done /\ stmt' = stmt) => line'.res = line.res]_vars

\* the role the precedence rule gives a field
Role(f) ==
    IF f.TagSettings \in {"GORM:TAG=TAG", "TYPE=tag"} THEN "Tag"
    ELSE IF f.DBName \in {"time", "Time", "_time"} THEN "Timestamp"
    ELSE IF f.DBName \in {"_measurement", "Measurement", "ID"} THEN "Ignored"
    ELSE "Field"

\* field i holds a value (it is neither nil nor the zero value of its type)
HoldsValue(f) == f.val # Nil /\ ~HoldsZero(f)

\* no other field of the record that holds a value bears the name of field i
SoleHolder(st, i) ==
    \A j \in DOMAIN st.Fields \ {i} :
        st.Fields[j].DBName = st.Fields[i].DBName => ~HoldsValue(st.Fields[j])

\* the place of the blank that parts the tags from the fields
SepAt(l) == CHOOSE i \in DOMAIN l : l[i] = " " /\ \A j \in 1..(i - 1) : l[j] # " "

\* the tag part of the line has `,name=text`
TagToken(l, name, text) ==
    \E i \in 2..(SepAt(l) - 4) :
        /\ (i - 2) % 4 = 0
        /\ l[i] = "," /\ l[i + 1] = name /\ l[i + 2] = "=" /\ l[i + 3] = text

\* the tag part of the line names `name`
NamedAsTag(l, name) ==
    \E i \in 2..(SepAt(l) - 4) : (i - 2) % 4 = 0 /\ l[i + 1] = name

\* the field part of the line has `name=text`
FieldToken(l, name, text) ==
    \E i \in (SepAt(l) + 1)..(Len(l) - 2) :
        /\ l[i - 1] \in {" ", ","}
        /\ l[i] = name /\ l[i + 1] = "=" /\ l[i + 2] = text

\* the field part of the line names `name`
NamedAsField(l, name) ==
    \E i \in (SepAt(l) + 1)..(Len(l) - 1) :
        l[i - 1] \in {" ", ","} /\ l[i] = name /\ l[i + 1] = "="

\* the line ends with a timestamp
Stamped(l) == Len(l) - 1 > SepAt(l) /\ l[Len(l) - 1] = " "

\* field i is the only one of the record that can set the timestamp
SoleStamp(st, i) ==
    \A j \in DOMAIN st.Fields \ {i} :
        ~(HoldsValue(st.Fields[j]) /\ Role(st.Fields[j]) = "Timestamp")

\* field i of the record is written in the role r and in no other
WrittenAs(st, l, i, r) ==
    LET f == st.Fields[i] IN
    CASE r = "Tag" ->
            /\ TagToken(l, f.DBName, Sprint(f.val))
            /\ ~NamedAsField(l, f.DBName)
            /\ SoleStamp(st, i) => ~Stamped(l)
      [] r = "Timestamp" ->
            /\ ~NamedAsTag(l, f.DBName) /\ ~NamedAsField(l, f.DBName)
            /\ (SoleStamp(st, i) /\ f.val.k = "time")
                   => (Stamped(l) /\ l[Len(l)] = UnixNano(f.val.v))
      [] r = "Ignored" ->
            /\ ~NamedAsTag(l, f.DBName) /\ ~NamedAsField(l, f.DBName)
            /\ SoleStamp(st, i) => ~Stamped(l)
      [] r = "Field" ->
            /\ FieldToken(l, f.DBName, FieldText(f.val))
            /\ ~NamedAsTag(l, f.DBName)
            /\ SoleStamp(st, i) => ~Stamped(l)

\* C21: every field of an encoded record that holds a value is written in
\* exactly the role the precedence rule gives it (tag annotation, then
\* timestamp name, then ignored name, else field): a tag-annotated field
\* named `time` is a tag and sets no timestamp, and no field is written both
\* as tag and as field.  (Fields sharing their name with another field that
\* holds a value are left out: there the later entry replaces the earlier.)
C21_OneRoleByFirstMatch ==
    (line.done /\ line.res.err = NilError) =>
        \A i \in DOMAIN stmt.Fields :
            (HoldsValue(stmt.Fields[i]) /\ SoleHolder(stmt, i))
                => WrittenAs(stmt, line.res.line, i, Role(stmt.Fields[i]))

\* A record with a tag-annotated `time` field and a plain field was encoded:
\* the time is a tag and the line carries no timestamp.
C21_Witness ==
    /\ line.done /\ line.res.err = NilError
    /\ Len(stmt.Fields) = 2
    /\ stmt.Fields[1] = Field("time", "TYPE=tag", V("time", 1))
    /\ stmt.Fields[2] = Field("load", "", V("float64", 15))
    /\ line.res.line = <<"m", ",", "time", "=", TimeString(1), " ", "load", "=", "1.5">>

(***************************************************************************)
(* The facade: Create, Update, Delete and Query of the Dialector, and      *)
(* ExecContext / Stmt.Exec of the connection pool.  A statement text is a  *)
(* sequence of characters (a rendered argument may be one longer piece).   *)
(* Client is the backend client: whether the Dialector has one, how many   *)
(* calls it has received and the last of them.                             *)
(***************************************************************************)
LowerCase == <<"a", "b", "c", "d", "e", "f", "g", "h", "i", "j", "k", "l", "m",
               "n", "o", "p", "q", "r", "s", "t", "u", "v", "w", "x", "y", "z">>
UpperCase == <<"A", "B", "C", "D", "E", "F", "G", "H", "I", "J", "K", "L", "M",
               "N", "O", "P", "Q", "R", "S", "T", "U", "V", "W", "X", "Y", "Z">>

\* the character U+0060, which a string of this notation cannot hold
BackQuote == "U+0060"

\* strings.ToUpper
ToUpperChar(c) ==
    IF \E i \in DOMAIN LowerCase : LowerCase[i] = c
    THEN UpperCase[CHOOSE i \in DOMAIN LowerCase : LowerCase[i] = c]
    ELSE c
ToUpper(q) == [i \in DOMAIN q |-> ToUpperChar(q[i])]

\* strings.HasPrefix
HasPrefix(q, p) == Len(q) >= Len(p) /\ SubSeq(q, 1, Len(p)) = p

\* strings.Replace(q, c, r, 1)
ReplaceFirst(q, c, r) ==
    IF \E i \in DOMAIN q : q[i] = c
    THEN LET i == CHOOSE i \in DOMAIN q : q[i] = c /\ \A j \in 1..(i - 1) : q[j] # c
         IN  SubSeq(q, 1, i - 1) \o r \o SubSeq(q, i + 1, Len(q))
    ELSE q

\* strings.ReplaceAll(q, c, r)
RECURSIVE ReplaceAll(_, _, _)
ReplaceAll(q, c, r) ==
    IF q = <<>> THEN <<>>
    ELSE (IF Head(q) = c THEN r ELSE <<Head(q)>>) \o ReplaceAll(Tail(q), c, r)

\* the text put in the place of a `?`
ArgText(arg) ==
    CASE arg.k = "string" -> <<"'">> \o ReplaceAll(arg.v, "'", <<"'", "'">>) \o <<"'">>
      [] arg.k = "time" -> <<"'", RFC3339(arg.v), "'">>
      [] arg.k = "nil" -> <<"N", "U", "L", "L">>
      [] OTHER -> arg.v

\* the loop over args, from argument i on
RECURSIVE Substituted(_, _, _)
Substituted(q, args, i) ==
    IF i > Len(args) THEN q
    ELSE Substituted(ReplaceFirst(q, "?", ArgText(args[i])), args, i + 1)

\* Mutant: the statement word is compared as written.
HasExactPrefix(q, word) == HasPrefix(q, word)

\* strings.HasPrefix(strings.ToUpper(query), word)
HasUpperPrefix(q, word) == HasPrefix(ToUpper(q), word)

Translated(e, q) == [err |-> e, query |-> q]

\* translateQuery(query, args...) of the connection pool
translateQuery(query, args) ==
    IF query = <<>> THEN Translated(ErrorsNew("empty query"), <<>>)
    ELSE LET q == Substituted(query, args, 1) IN
         IF HasUpperPrefix(q, <<"S", "E", "L", "E", "C", "T">>)
         THEN Translated(NilError, ReplaceAll(q, BackQuote, <<Quote>>))
         ELSE IF HasUpperPrefix(q, <<"I", "N", "S", "E", "R", "T">>)
         THEN Translated(ErrorsNew("INSERT is not supported"), <<>>)
         ELSE IF HasUpperPrefix(q, <<"U", "P", "D", "A", "T", "E">>)
         THEN Translated(ErrorsNew("UPDATE is not supported"), <<>>)
         ELSE IF HasUpperPrefix(q, <<"D", "E", "L", "E", "T", "E">>)
         THEN Translated(ErrorsNew("DELETE is not supported"), <<>>)
         ELSE Translated(NilError, q)

\* formatValueForQuery
formatValueForQuery(val) ==
    CASE val.k = "string" -> "'" \o val.v \o "'"
      [] val.k = "time" -> "'" \o RFC3339(val.v) \o "'"
      [] OTHER -> Sprint(val)

\* fmt.Sprintf("%s", e.Column): a clause.Column is printed as a struct
ColumnText(e) ==
    IF e.ColumnIsString THEN e.Column ELSE "{ " \o e.Column \o "  %!s(bool=false)}"

DeleteOps == [Eq |-> " = ", Neq |-> " != ", Gt |-> " > ", Gte |-> " >= ", Lt |-> " < ", Lte |-> " <= "]

\* the loop over where.Exprs, from expression i on
RECURSIVE DeleteWhere(_, _)
DeleteWhere(exprs, i) ==
    IF i > Len(exprs) THEN Translated(NilError, <<>>)
    ELSE IF exprs[i].op \notin DOMAIN DeleteOps
         THEN Translated(ErrorsNew("unsupported delete condition"), <<>>)
         ELSE LET rest == DeleteWhere(exprs, i + 1) IN
              IF rest.err # NilError THEN rest
              ELSE Translated(NilError,
                       (IF i > 1 THEN <<" AND ">> ELSE <<>>)
                       \o <<ColumnText(exprs[i]), DeleteOps[exprs[i].op], formatValueForQuery(exprs[i].Value)>>
                       \o rest.query)

\* buildDeleteQuery
buildDeleteQuery(st) ==
    IF st.Schema = "nil" \/ st.Table = "" THEN Translated(ErrorsNew("missing table or schema"), <<>>)
    ELSE IF st.WhereExpr # "clause.Where" \/ Len(st.Where) = 0
    THEN Translated(NilError, <<"DELETE FROM ", st.Table>>)
    ELSE LET w == DeleteWhere(st.Where, 1) IN
         IF w.err # NilError THEN w
         ELSE Translated(NilError, <<"DELETE FROM ", st.Table, " WHERE ">> \o w.query)

\* what the backend answers to a call: success, or one of these errors
BackendErrors ==
    { Err("backend", {}, <<"measurement ", Quote, "foo", Quote, " not found">>),
      Err("backend", {}, <<"x">>) }
BackendAnswers == {NilError} \cup BackendErrors

NoCall == [method |-> "none", text |-> <<>>]
Sent(method, text) == [method |-> method, text |-> text]
Called(c) == [c EXCEPT !.calls = @ + 1]
Outcome(op, query, e, backend, sent, res) ==
    [op |-> op, query |-> query, ret |-> e, backend |-> backend, sent |-> sent, res |-> res]

\* the statement texts and arguments handed to the facade
UpdateText == <<"U", "P", "D", "A", "T", "E", " ", "t">>
ShowText == <<"S", "H", "O", "W", " ", "?">>
ExecInputs ==
    { <<<<>>, <<>>>>,
      <<UpdateText, <<>>>>,
      <<<<"u", "p", "d", "a", "t", "e", " ", "t">>, <<>>>>,
      <<<<"U", "p", "D", "a", "T", "e", " ", "t", "=", "?">>, <<[k |-> "string", v |-> <<"U">>]>>>>,
      <<<<" ", "U", "P", "D", "A", "T", "E">>, <<>>>>,
      <<<<"?", "P", "D", "A", "T", "E">>, <<[k |-> "other", v |-> <<"U">>]>>>>,
      <<<<"?", "P", "D", "A", "T", "E">>, <<[k |-> "string", v |-> <<"U">>]>>>>,
      <<<<"S", "E", "L", "E", "C", "T", " ", BackQuote, "a", BackQuote>>, <<>>>>,
      <<<<"i", "n", "s", "e", "r", "t">>, <<>>>>,
      <<<<"D", "e", "l", "e", "t", "e">>, <<>>>>,
      <<ShowText, <<[k |-> "nil", v |-> <<>>], [k |-> "string", v |-> <<"a", "'", "b">>]>>>>,
      <<ShowText, <<[k |-> "time", v |-> 1]>>>>,
      <<<<"S", "H", "O", "W", " ", "?", " ", "?">>,
        <<[k |-> "string", v |-> <<"a", "?">>], [k |-> "other", v |-> <<"5">>]>>>> }
QueryPool == {in[1] : in \in ExecInputs}

\* a leaf of the predicate list: op is the clause type, Column the column and
\* ColumnIsString whether e.Column holds a plain string
Expr(op, col, val) == [op |-> op, Column |-> col, ColumnIsString |-> TRUE, Value |-> val]
FacadeStmts ==
    { Statement("set", "m", "struct", <<Field("duration", "", V("int", 5))>>),
      Statement("set", "", "ptr", <<Field("duration", "", V("int", 0))>>),
      Statement("nil", "m", "struct", <<>>),
      Statement("set", "m", "slice", <<>>),
      [Statement("set", "m", "struct", <<>>) EXCEPT
          !.Where = <<Expr("Eq", "region", V("string", "US")), Expr("Gte", "duration", V("int", 5))>>],
      [Statement("set", "m", "struct", <<>>) EXCEPT
          !.Where = <<Expr("Like", "region", V("string", "U%"))>>] }

otherThanFacade ==
    <<impl, Iterator, rowData, columns, current, err, skipNext, dest, drv, ret, pulls, terr>>

InitFacade ==
    /\ Client \in {[nil |-> n, calls |-> 0] : n \in BOOLEAN}
    /\ RowsAffected = 0
    /\ call = Outcome("none", <<>>, NilError, NilError, NoCall, "none")
    /\ stmt \in FacadeStmts
    /\ line = [done |-> FALSE, res |-> NotEncoded]
    /\ RowsIdle /\ TranslatorIdle

\* Dialector.Update
Update ==
    /\ call' = Outcome("Update", <<>>, ErrorsNew("update is not supported"), NilError, NoCall, "none")
    /\ UNCHANGED <<Client, RowsAffected, stmt, line>>
    /\ UNCHANGED otherThanFacade

\* Dialector.Create
Create ==
    /\ Client.calls < MaxCalls
    /\ \E st \in FacadeStmts :
        /\ stmt' = st
        /\ IF Client.nil
           THEN /\ call' = Outcome("Create", <<>>, ErrorsNew("no client"), NilError, NoCall, "none")
                /\ UNCHANGED <<Client, RowsAffected, line>>
           ELSE IF st.Schema = "nil"
           THEN /\ call' = Outcome("Create", <<>>, ErrorsNew("missing schema"), NilError, NoCall, "none")
                /\ UNCHANGED <<Client, RowsAffected, line>>
           ELSE \E r \in buildLineProtocol(st) :
                /\ line' = [done |-> TRUE, res |-> r]
                /\ IF r.err # NilError
                   THEN /\ call' = Outcome("Create", <<>>, Wrap("build line", r.err), NilError, NoCall, "none")
                        /\ UNCHANGED <<Client, RowsAffected>>
                   ELSE \E b \in BackendAnswers :
                        /\ Client' = Called(Client)
                        /\ IF b # NilError
                           THEN /\ call' = Outcome("Create", <<>>, Wrap("write", b), b, Sent("Write", r.line), "none")
                                /\ UNCHANGED RowsAffected
                           ELSE /\ call' = Outcome("Create", <<>>, NilError, NilError, Sent("Write", r.line), "none")
                                /\ RowsAffected' = 1
    /\ UNCHANGED otherThanFacade

\* Mutant: Delete counts the row whatever the backend answers.
DeleteCountsAnyAnswer ==
    /\ Client.calls < MaxCalls
    /\ \E st \in FacadeStmts :
        /\ stmt' = st
        /\ IF Client.nil
           THEN /\ call' = Outcome("Delete", <<>>, ErrorsNew("no client"), NilError, NoCall, "none")
                /\ UNCHANGED <<Client, RowsAffected>>
           ELSE LET q == buildDeleteQuery(st) IN
                IF q.err # NilError
                THEN /\ call' = Outcome("Delete", <<>>, Wrap("build delete", q.err), NilError, NoCall, "none")
                     /\ UNCHANGED <<Client, RowsAffected>>
                ELSE \E b \in BackendAnswers :
                     /\ Client' = Called(Client)
                     /\ RowsAffected' = 1
                     /\ call' = Outcome("Delete", q.query,
                                        IF b # NilError THEN Wrap("delete", b) ELSE NilError,
                                        b, Sent("Query", q.query), "none")
    /\ UNCHANGED line
    /\ UNCHANGED otherThanFacade

\* Dialector.Delete
Delete ==
    /\ Client.calls < MaxCalls
    /\ \E st \in FacadeStmts :
        /\ stmt' = st
        /\ IF Client.nil
           THEN /\ call' = Outcome("Delete", <<>>, ErrorsNew("no client"), NilError, NoCall, "none")
                /\ UNCHANGED <<Client, RowsAffected>>
           ELSE LET q == buildDeleteQuery(st) IN
                IF q.err # NilError
                THEN /\ call' = Outcome("Delete", <<>>, Wrap("build delete", q.err), NilError, NoCall, "none")
                     /\ UNCHANGED <<Client, RowsAffected>>
                ELSE \E b \in BackendAnswers :
                     /\ Client' = Called(Client)
                     /\ IF b # NilError
                        THEN /\ call' = Outcome("Delete", q.query, Wrap("delete", b), b, Sent("Query", q.query), "none")
                             /\ UNCHANGED RowsAffected
                        ELSE /\ call' = Outcome("Delete", q.query, NilError, NilError, Sent("Query", q.query), "none")
                             /\ RowsAffected' = 1
    /\ UNCHANGED line
    /\ UNCHANGED otherThanFacade

\* InfluxDBConnPool.ExecContext and InfluxDBStmt.Exec, which have one body
Exec(op) ==
    /\ Client.calls < MaxCalls
    /\ ~Client.nil
    /\ \E in \in ExecInputs :
        LET t == translateQuery(in[1], in[2]) IN
        IF t.err # NilError
        THEN /\ call' = Outcome(op, in[1], t.err, NilError, NoCall, "none")
             /\ UNCHANGED Client
        ELSE \E b \in BackendAnswers :
             /\ Client' = Called(Client)
             /\ call' = IF b # NilError
                        THEN Outcome(op, in[1], b, b, Sent("Query", t.query), "none")
                        ELSE Outcome(op, in[1], NilError, NilError, Sent("Query", t.query), "rowsAffected: 1")
    /\ UNCHANGED <<RowsAffected, stmt, line>>
    /\ UNCHANGED otherThanFacade

ExecContext == Exec("ExecContext")
StmtExec == Exec("Stmt.Exec")

(***************************************************************************)
(* Properties of the facade.                                               *)
(***************************************************************************)
\* the text begins with the word UPDATE, in whatever letter case
BeginsWithUpdate(q) ==
    /\ Len(q) >= 6
    /\ q[1] \in {"U", "u"} /\ q[2] \in {"P", "p"} /\ q[3] \in {"D", "d"}
    /\ q[4] \in {"A", "a"} /\ q[5] \in {"T", "t"} /\ q[6] \in {"E", "e"}

\* C1: Dialector.Update always returns an error, calls the client not at all
\* and leaves RowsAffected as it was; ExecContext and Stmt.Exec of a text
\* that begins with UPDATE, in any letter case, return an error and do not
\* call the client.
C1_UpdateRejected ==
    [][ /\ call'.op = "Update" =>
            (/\ call'.ret # NilError /\ call'.sent = NoCall
             /\ Client' = Client /\ RowsAffected' = RowsAffected)
        /\ (call'.op \in {"ExecContext", "Stmt.Exec"} /\ BeginsWithUpdate(call'.query)) =>
            (call'.ret # NilError /\ call'.sent = NoCall /\ Client' = Client) ]_vars

\* After a record was written, an update text in mixed letter case was
\* handed to ExecContext and rejected, the client having received the one
\* call of the write only.
C1_Witness ==
    /\ call.op = "ExecContext"
    /\ BeginsWithUpdate(call.query) /\ call.query[2] = "p"
    /\ call.ret # NilError
    /\ call.sent = NoCall
    /\ RowsAffected = 1
    /\ Client.calls = 1

\* C8 as stated: when the backend call of Create, Query or Delete fails, the
\* caller receives what the error translator makes of the backend's error.
C8_ErrorsTranslated ==
    (call.op \in {"Create", "Query", "Delete"} /\ call.backend # NilError)
        => call.ret = TranslateError(call.backend)

\* the line has a field=value piece behind the blank that ends the tags
HasFieldPair(l) ==
    \E i \in DOMAIN l : l[i] = " " /\ i + 2 \in DOMAIN l /\ l[i + 2] = "="

\* C11 as stated: every line Create hands to Client.Write holds at least one
\* field=value pair, a record without a field value being refused.
C11_WriteCarriesField ==
    (call.op = "Create" /\ call.sent.method = "Write") => HasFieldPair(call.sent.text)

(***************************************************************************)
(* The query builder: Dialector.translateQuery called without a text       *)
(* builds the query from the statement, and buildDeleteQuery the delete.   *)
(* A built query is the sequence of the pieces written to the builder.     *)
(***************************************************************************)
\* strings.ReplaceAll(v, "'", "''") on the strings used
EscapeQuotes(str) == IF str = "O'Neil" THEN "O''Neil" ELSE str

\* formatValue
formatValue(val) ==
    CASE val.k = "string" -> "'" \o EscapeQuotes(val.v) \o "'"
      [] val.k = "time" -> "'" \o RFC3339(val.v) \o "'"
      [] val.k = "nil" -> "NULL"
      [] OTHER -> Sprint(val)

\* Mutant: the identifier is written bare.
QuoteBare(str) == str

\* Dialector.QuoteString
QuoteString(str) == "\"" \o str \o "\""

\* strings.Join, as pieces
RECURSIVE Join(_, _)
Join(strs, sep) ==
    IF Len(strs) = 0 THEN <<>>
    ELSE IF Len(strs) = 1 THEN <<strs[1]>>
    ELSE <<strs[1], sep>> \o Join(Tail(strs), sep)

\* the quoted names of the schema's fields, from field i on
RECURSIVE QuotedFieldNames(_, _)
QuotedFieldNames(fs, i) ==
    IF i > Len(fs) THEN <<>>
    ELSE (IF fs[i].DBName # "" THEN <<QuoteString(fs[i].DBName)>> ELSE <<>>)
         \o QuotedFieldNames(fs, i + 1)

\* the select list
SelectFields(st) ==
    LET chosen == IF Len(st.Selects) > 0 THEN st.Selects ELSE QuotedFieldNames(st.Fields, 1)
    IN  IF Len(chosen) = 0 THEN <<"*">> ELSE chosen

WhereOps ==
    [Eq |-> " = ", Neq |-> " != ", Gt |-> " > ", Gte |-> " >= ", Lt |-> " < ",
     Lte |-> " <= ", Like |-> " LIKE "]

\* the values of an IN leaf, from value i on
RECURSIVE InValues(_, _)
InValues(vals, i) ==
    IF i > Len(vals) THEN <<>>
    ELSE (IF i > 1 THEN <<", ">> ELSE <<>>) \o <<formatValue(vals[i])>> \o InValues(vals, i + 1)

Panic(what) == Err("panic", {}, <<what>>)
Panicked(e) == e.id = "panic"

\* the loop over where.Exprs of the query builder, from expression i on;
\* e.Column.(string) panics when the column is no string
RECURSIVE QueryWhere(_, _)
QueryWhere(exprs, i) ==
    IF i > Len(exprs) THEN Translated(NilError, <<>>)
    ELSE LET e == exprs[i]
             sep == IF i > 1 THEN <<" AND ">> ELSE <<>>
             rest == QueryWhere(exprs, i + 1)
         IN  IF e.op \notin DOMAIN WhereOps \cup {"IN"}
             THEN Translated(Err("fmt.Errorf", {}, <<"unsupported expression type: ", e.op>>), <<>>)
             ELSE IF ~e.ColumnIsString
             THEN Translated(Panic("interface conversion: interface {} is clause.Column, not string"), <<>>)
             ELSE IF rest.err # NilError THEN rest
             ELSE IF e.op = "IN"
             THEN Translated(NilError,
                      sep \o <<QuoteString(e.Column), " IN (">> \o InValues(e.Value, 1) \o <<")">>
                      \o rest.query)
             ELSE Translated(NilError,
                      sep \o <<QuoteString(e.Column), WhereOps[e.op], formatValue(e.Value)>>
                      \o rest.query)

\* fmt.Sprint(column.Column) of a clause.Column
SprintColumn(name) == "{ " \o name \o "  false}"

\* the columns of ORDER BY, from column i on
RECURSIVE OrderPieces(_, _)
OrderPieces(cols, i) ==
    IF i > Len(cols) THEN <<>>
    ELSE (IF i > 1 THEN <<", ">> ELSE <<>>)
         \o <<QuoteString(SprintColumn(cols[i].Column))>>
         \o (IF cols[i].Desc THEN <<" DESC">> ELSE <<>>)
         \o OrderPieces(cols, i + 1)

LimitPieces(st) ==
    (IF st.Limit # -1 THEN <<" LIMIT " \o ToString(st.Limit)>> ELSE <<>>)
    \o (IF st.Offset > 0 THEN <<" OFFSET " \o ToString(st.Offset)>> ELSE <<>>)

\* Dialector.buildLimitClause, the LIMIT clause builder that Initialize
\* registers: what it writes for the statement's limit
buildLimitClause(st) ==
    IF st.Limit # -1
    THEN <<"LIMIT " \o ToString(st.Limit)>>
         \o (IF st.Offset > 0 THEN <<" OFFSET " \o ToString(st.Offset)>> ELSE <<>>)
    ELSE IF st.Offset > 0 THEN <<"OFFSET " \o ToString(st.Offset)>>
    ELSE <<>>

Built(e, q, st) == [err |-> e, query |-> q, stmt |-> st]

\* Mutant: the text handed in is set aside and the query is built from the
\* statement.
BuildQueryFromStatement(st, query) ==
    Built(NilError, <<"SELECT ", "*", " FROM ", QuoteString(st.Table)>>, st)

\* Dialector.translateQuery(db, query, args...): the error, the query and the
\* statement as the call leaves it
BuildQuery(st, query) ==
    IF query # <<>> THEN Built(NilError, query, st)
    ELSE IF st.Schema = "nil" THEN Built(ErrorsNew("missing schema"), <<>>, st)
    ELSE LET st1 == IF st.Table = "" THEN [st EXCEPT !.Table = st.SchemaTable] ELSE st IN
         IF st1.Table = "" THEN Built(ErrorsNew("missing table"), <<>>, st1)
         ELSE LET head == <<"SELECT ">> \o Join(SelectFields(st1), ", ")
                          \o <<" FROM ", QuoteString(st1.Table)>>
                  w == IF st1.WhereExpr = "clause.Where" /\ Len(st1.Where) > 0
                       THEN QueryWhere(st1.Where, 1)
                       ELSE Translated(NilError, <<>>)
                  where == IF w.query = <<>> THEN <<>> ELSE <<" WHERE ">> \o w.query
                  order == IF Len(st1.Order) > 0
                           THEN <<" ORDER BY ">> \o OrderPieces(st1.Order, 1) ELSE <<>>
              IN  IF w.err # NilError THEN Built(w.err, <<>>, st1)
                  ELSE Built(NilError, head \o where \o order \o LimitPieces(st1), st1)

\* Dialector.Query: the client and the text are looked at, the text goes
\* through the method translateQuery and the result is sent to the backend
Query ==
    /\ Client.calls < MaxCalls
    /\ \E query \in QueryPool :
        IF Client.nil
        THEN /\ call' = Outcome("Query", query, ErrorsNew("no client"), NilError, NoCall, "none")
             /\ UNCHANGED <<Client, stmt>>
        ELSE IF query = <<>>
        THEN /\ call' = Outcome("Query", query, ErrorsNew("empty query"), NilError, NoCall, "none")
             /\ UNCHANGED <<Client, stmt>>
        ELSE LET t == BuildQuery(stmt, query) IN
             /\ stmt' = t.stmt
             /\ IF t.err # NilError
                THEN /\ call' = Outcome("Query", query, Wrap("translate", t.err), NilError, NoCall, "none")
                     /\ UNCHANGED Client
                ELSE IF t.query = <<>>
                THEN /\ call' = Outcome("Query", query, ErrorsNew("empty translated query"), NilError, NoCall, "none")
                     /\ UNCHANGED Client
                ELSE \E b \in BackendAnswers, iterator \in {"nil", "set"} :
                     /\ Client' = Called(Client)
                     /\ call' = IF b # NilError
                                THEN Outcome("Query", query, Wrap("query", b), b, Sent("Query", t.query), "none")
                                ELSE IF iterator = "nil"
                                THEN Outcome("Query", query, ErrorsNew("empty result"), NilError, Sent("Query", t.query), "none")
                                ELSE Outcome("Query", query, NilError, NilError, Sent("Query", t.query), "QueryRows")
    /\ UNCHANGED <<RowsAffected, line>>
    /\ UNCHANGED otherThanFacade

NextFacade == Update \/ Create \/ Delete \/ Query \/ ExecContext \/ StmtExec

SpecFacade == InitFacade /\ [][NextFacade]_vars

\* the predicate lists, tables, select lists and limits of the statements
LeafPool ==
    { Expr("Eq", "region", V("string", "US")),
      Expr("Gte", "duration", V("int", 100)),
      Expr("Neq", "name", V("string", "O'Neil")),
      Expr("Lt", "time", V("time", 1)),
      Expr("Like", "region", V("string", "U%")),
      Expr("Eq", "load", Nil),
      Expr("IN", "duration", <<V("int", 1), V("int", 2)>>),
      Expr("clause.OrConditions", "", Nil),
      Expr("clause.Expr", "", Nil),
      [Expr("Eq", "region", V("string", "US")) EXCEPT !.ColumnIsString = FALSE] }

RECURSIVE LeafSeqs(_)
LeafSeqs(n) ==
    IF n = 0 THEN {<<>>}
    ELSE LeafSeqs(n - 1) \cup
         {Append(ls, l) : ls \in {x \in LeafSeqs(n - 1) : Len(x) = n - 1}, l \in LeafPool}

BuilderStmts ==
    { [Statement(t[1], t[2], "struct", sf[2]) EXCEPT
          !.Table = t[3], !.Selects = sf[1], !.WhereExpr = w[1], !.Where = w[2],
          !.Order = o, !.Limit = lo[1], !.Offset = lo[2]] :
        t \in {<<"set", "m", "m">>, <<"set", "m", "">>, <<"set", "", "">>, <<"nil", "m", "m">>},
        sf \in {<<<<>>, <<>>>>,
                <<<<>>, <<Field("duration", "", V("int", 5)), Field("region", "TYPE=tag", V("string", "US"))>>>>,
                <<<<"a", "b">>, <<Field("duration", "", V("int", 5))>>>>},
        w \in {<<"clause.Where", ls>> : ls \in LeafSeqs(MaxLeaves)}
              \cup {<<"absent", <<>>>>, <<"clause.Expr", <<>>>>},
        o \in {<<>>, <<[Column |-> "time", Desc |-> TRUE]>>},
        lo \in {<<-1, 0>>, <<10, 0>>, <<10, 5>>, <<-1, 5>>} }

otherThanBuilder ==
    <<impl, Iterator, rowData, columns, current, err, skipNext, dest, drv, ret, pulls,
      Client, RowsAffected, terr, line>>

InitBuilder ==
    /\ stmt \in BuilderStmts
    /\ call = Outcome("none", <<>>, NilError, NilError, NoCall, <<>>)
    /\ Client = [nil |-> FALSE, calls |-> 0]
    /\ RowsAffected = 0
    /\ line = [done |-> FALSE, res |-> NotEncoded]
    /\ RowsIdle /\ TranslatorIdle

\* a caller has the query built from the statement, or hands in a text
CallTranslateQuery ==
    /\ \E query \in {<<>>, ShowText} :
        LET b == BuildQuery(stmt, query) IN
        /\ stmt' = b.stmt
        /\ call' = Outcome("translateQuery", query, b.err, NilError, NoCall, b.query)
    /\ UNCHANGED otherThanBuilder

\* a caller has the delete query built from the statement
CallBuildDeleteQuery ==
    /\ LET b == buildDeleteQuery(stmt) IN
        call' = Outcome("buildDeleteQuery", <<>>, b.err, NilError, NoCall, b.query)
    /\ UNCHANGED stmt
    /\ UNCHANGED otherThanBuilder

\* gorm has the LIMIT clause of the statement built
CallBuildLimitClause ==
    /\ call' = Outcome("buildLimitClause", <<>>, NilError, NilError, NoCall,
                       buildLimitClause(stmt))
    /\ UNCHANGED stmt
    /\ UNCHANGED otherThanBuilder

NextBuilder == CallTranslateQuery \/ CallBuildDeleteQuery \/ CallBuildLimitClause

SpecBuilder == InitBuilder /\ [][NextBuilder]_vars

(***************************************************************************)
(* Properties of the query builder.                                        *)
(***************************************************************************)
RECURSIVE Concat(_)
Concat(pieces) == IF pieces = <<>> THEN "" ELSE Head(pieces) \o Concat(Tail(pieces))

\* the last call built a query from the statement and returned it
BuiltFromStatement ==
    call.op = "translateQuery" /\ call.query = <<>> /\ call.ret = NilError

ExampleLeaves == <<Expr("Eq", "region", V("string", "US")), Expr("Gte", "duration", V("int", 100))>>

\* the statement carries a predicate list of comparison leaves only
ComparisonLeaves(st) ==
    /\ st.WhereExpr = "clause.Where" /\ Len(st.Where) > 0
    /\ \A k \in DOMAIN st.Where : st.Where[k].op \in DOMAIN WhereOps

\* from piece w on, q holds the leaves in their order: quoted column, operator
\* and value, with ` AND ` before every leaf but the first
LeavesInOrder(q, w, leaves) ==
    /\ w \in DOMAIN q /\ q[w] = " WHERE "
    /\ w + 4 * Len(leaves) - 1 \in DOMAIN q
    /\ \A k \in DOMAIN leaves :
        LET at == w + 4 * (k - 1) IN
        /\ k > 1 => q[at] = " AND "
        /\ q[at + 1] = "\"" \o leaves[k].Column \o "\""
        /\ q[at + 2] = WhereOps[leaves[k].op]
        /\ q[at + 3] = formatValue(leaves[k].Value)
    /\ \A i \in (w + 1)..(w + 4 * Len(leaves) - 1) :
        q[i] = " AND " <=> (i - w) % 4 = 0

\* C14: the built query holds the leaves of the predicate list in their
\* original order, joined by ` AND `, each as quoted column, operator and
\* formatted value; for [Eq(region,"US"), Gte(duration,100)] the text is
\* exactly WHERE "region" = 'US' AND "duration" >= 100.
C14_WhereInOrder ==
    (BuiltFromStatement /\ ComparisonLeaves(stmt)) =>
        /\ LeavesInOrder(call.res, 4 + 2 * Len(SelectFields(stmt)) - 1, stmt.Where)
        /\ stmt.Where = ExampleLeaves =>
            \E w \in DOMAIN call.res :
                Concat(SubSeq(call.res, w, w + 7)) = " WHERE \"region\" = 'US' AND \"duration\" >= 100"

\* The example list was translated within a query that goes on with an
\* ORDER BY and a LIMIT.
C14_Witness ==
    /\ BuiltFromStatement
    /\ stmt.Where = ExampleLeaves /\ stmt.WhereExpr = "clause.Where"
    /\ Len(stmt.Order) > 0 /\ stmt.Limit = 10
    /\ Concat(call.res) =
         "SELECT * FROM \"m\" WHERE \"region\" = 'US' AND \"duration\" >= 100 ORDER BY \"{ time  false}\" DESC LIMIT 10"

\* the caller has put a WHERE clause on the statement
WhereSupplied(st) ==
    st.WhereExpr # "absent" /\ (st.WhereExpr = "clause.Where" => Len(st.Where) > 0)

\* the predicate list holds a leaf no translator writes: an Or combinator or
\* a raw expression
UnknownLeaf(st) ==
    /\ st.WhereExpr = "clause.Where"
    /\ \E k \in DOMAIN st.Where : st.Where[k].op \in {"clause.OrConditions", "clause.Expr"}

\* the last call built the query or the delete from the statement
BuilderCalled ==
    \/ call.op = "translateQuery" /\ call.query = <<>>
    \/ call.op = "buildDeleteQuery"

HasPiece(q, piece) == \E i \in DOMAIN q : q[i] = piece

\* C15 as stated: translation fails on a predicate it cannot express, and a
\* translation that succeeds for a statement with a WHERE clause has written
\* that clause.
C15_NoClauseDropped ==
    BuilderCalled =>
        /\ UnknownLeaf(stmt) => call.ret # NilError
        /\ (call.ret = NilError /\ WhereSupplied(stmt)) =>
            HasPiece(call.res, " WHERE ")

\* C16 as stated, for the translator: a predicate whose column is not a plain
\* string is answered with an error, never with a panic.
C16_NoPanic == BuilderCalled => ~Panicked(call.ret)

\* C17 as stated: a statement that selects no columns yields the select
\* list `*`.
C17_StarByDefault ==
    (BuiltFromStatement /\ Len(stmt.Selects) = 0) =>
        (call.res[1] = "SELECT " /\ call.res[2] = "*" /\ call.res[3] = " FROM ")

\* the numbers a limit or an offset of the statements can be
ClauseNumbers == {st.Limit : st \in BuilderStmts} \cup {st.Offset : st \in BuilderStmts}

IsOffsetPiece(p) == \E n \in ClauseNumbers : p \in {" OFFSET " \o ToString(n), "OFFSET " \o ToString(n)}
IsLimitPiece(p) == \E n \in ClauseNumbers : p \in {" LIMIT " \o ToString(n), "LIMIT " \o ToString(n)}

\* C22 as stated: in every text built from a statement (the query of
\* translateQuery, the clause of buildLimitClause) an OFFSET stands only
\* right after a LIMIT; an offset without a limit yields no OFFSET.
C22_OffsetOnlyAfterLimit ==
    (call.op \in {"translateQuery", "buildLimitClause"} /\ call.ret = NilError) =>
        \A i \in DOMAIN call.res :
            IsOffsetPiece(call.res[i]) => (i > 1 /\ IsLimitPiece(call.res[i - 1]))

\* C23 as stated: a call of the query translator leaves the statement it is
\* given as it was (table name, selected columns, clauses), whether it
\* succeeds or fails, and a second call on the statement returns what the
\* first returned.
C23_StatementUnchanged ==
    [][(call'.op = "translateQuery") =>
          /\ stmt' = stmt
          /\ (call.op = "translateQuery" /\ call.query = call'.query)
                => (call'.res = call.res /\ call'.ret = call.ret)]_vars

\* the row driverRows.Next has read its values from
DriverSource == IF impl = "RowsGo" THEN IterValue(Iterator) ELSE rowData

\* C24 as stated: what driverRows.Next hands over for a column depends on the
\* source value alone, not on the column's name: two columns of one row that
\* hold the same float64 value are handed over as the same value.
C24_NameIndependent ==
    (ret.op = "driverRows.Next" /\ ret.ok) =>
        \A i, j \in DOMAIN drv :
            LET m == DriverSource.m IN
            ( /\ i <= Len(columns) /\ j <= Len(columns)
              /\ columns[i] \in DOMAIN m /\ columns[j] \in DOMAIN m
              /\ m[columns[i]].k = "float64"
              /\ m[columns[i]] = m[columns[j]] )
                => drv[i] = drv[j]

\* driverConn.Query has pulled a row ahead and the consumer has not called yet
PulledAhead == ret.op = "none" /\ Iterator.n = 1 /\ ~IterValue(Iterator).nil

\* C25 as stated: the row driverConn.Query pulls ahead to learn the columns
\* is the row the consumer's first driverRows.Next delivers: that call
\* succeeds, takes no further row from the iterator and hands over the
\* values of the row pulled ahead.
C25_PulledAheadRowDelivered ==
    [][(PulledAhead /\ ret'.op = "driverRows.Next") =>
          /\ ret'.ok
          /\ Iterator' = Iterator
          /\ DriverSource' = IterValue(Iterator)]_vars

\* the backend iterator has stopped with an error
IteratorFailed == ~Iterator.nil /\ Iterator.done /\ Iterator.err

\* C26 as stated: a driverRows.Next that finds the backend iterator stopped
\* by an error returns an error other than io.EOF; io.EOF is returned only
\* for an iterator that ended without error.
C26_FailedStreamNotEOF ==
    (ret.op = "driverRows.Next" /\ IteratorFailed) =>
        (IsErr(ret.err) /\ ret.err.kind # "EOF")

\* C27: an error QueryRows has recorded (nil iterator, nil row data,
\* iterator error, recovered panic) stays: whatever Next is called later and
\* whatever it returns, Err() stays non-nil, and every Scan after it returns
\* an error and writes to no destination.
C27_ErrorSticky ==
    /\ [][(impl = "QueryRows" /\ IsErr(err)) => IsErr(err')]_vars
    /\ [][(impl = "QueryRows" /\ IsErr(err) /\ ret'.op = "Scan") =>
              (~ret'.ok /\ IsErr(ret'.err) /\ dest' = dest)]_vars

\* After a nil row was recorded Next went on and returned true for a row
\* that fits the destination, and the Scan that followed returned the error.
C27_Witness ==
    /\ impl = "QueryRows"
    /\ err = E("rowNil", "", "", "")
    /\ current /\ ~rowData.nil /\ pulls = 1
    /\ Len(columns) = 1 /\ Len(dest) = 1 /\ dest[1] = Cell("int64")
    /\ rowData.m[columns[1]] = V("int64", 5)
    /\ ret = Returned("Scan", FALSE, E("rowNil", "", "", ""))

\* C28: Dialector.Query either fails without a backend call (nil client,
\* empty text) or sends to Client.Query exactly the text it was given; it
\* never sends a text built from the statement.
C28_QueryTextVerbatim ==
    [][(call'.op = "Query") =>
          IF Client.nil \/ call'.query = <<>>
          THEN /\ call'.ret # NilError /\ call'.sent = NoCall
               /\ Client' = Client
          ELSE /\ call'.sent = Sent("Query", call'.query)
               /\ Client'.calls = Client.calls + 1
               /\ stmt' = stmt]_vars

\* A text with back quotes was handed to Query for a statement that carries
\* predicates, and the backend received that very text.
C28_Witness ==
    /\ call.op = "Query" /\ call.ret = NilError
    /\ Len(stmt.Where) = 2
    /\ call.query = <<"S", "E", "L", "E", "C", "T", " ", BackQuote, "a", BackQuote>>
    /\ call.sent = Sent("Query", call.query)
    /\ Client.calls = 1

\* the text in which the k-th `?` of q, counted from k on, has given way to
\* the text of the k-th argument
RECURSIVE Positional(_, _, _)
Positional(q, args, k) ==
    IF q = <<>> THEN <<>>
    ELSE IF Head(q) = "?"
         THEN (IF k <= Len(args) THEN ArgText(args[k]) ELSE <<"?">>)
              \o Positional(Tail(q), args, k + 1)
         ELSE <<Head(q)>> \o Positional(Tail(q), args, k)

\* what is sent for an input when its placeholders are filled by position
PositionalSent(in) ==
    LET q == Positional(in[1], in[2], 1) IN
    IF HasPrefix(ToUpper(q), <<"S", "E", "L", "E", "C", "T">>)
    THEN ReplaceAll(q, BackQuote, <<Quote>>) ELSE q

\* C29 as stated: the text ExecContext and Stmt.Exec send is the text given
\* with its i-th `?` replaced by the i-th argument; a `?` inside the text
\* of an earlier argument is not taken for a placeholder.
C29_PositionalPlaceholders ==
    (call.op \in {"ExecContext", "Stmt.Exec"} /\ call.sent # NoCall) =>
        call.sent.text \in {PositionalSent(in) : in \in {x \in ExecInputs : x[1] = call.query}}

\* the operation finds what it checks before it turns to the backend amiss:
\* no client, no schema, for Create a record that is no struct, for Delete no
\* table name or a predicate the delete query cannot express
FailsBeforeBackend(op, st) ==
    \/ Client.nil
    \/ st.Schema = "nil"
    \/ op = "Create" /\ st.Kind \notin {"struct", "ptr"}
    \/ op = "Delete" /\ st.Table = ""
    \/ op = "Delete" /\ st.WhereExpr = "clause.Where"
           /\ \E k \in DOMAIN st.Where : st.Where[k].op \notin DOMAIN DeleteOps

Phase(ok, e) == IF ok THEN "HasRow" ELSE IF IsErr(e) THEN "Failed" ELSE "Exhausted"

\* this step is a call of Next on one of the two row types
NextStep == impl \in {"QueryRows", "DialectorGo"} /\ ret'.op = "Next"
\* in this step the iterator yielded a row, ended without error, ended with one
Yielded == Iterator'.n = Iterator.n + 1 /\ ~IterValue(Iterator').nil
EndedClean == ~Iterator'.nil /\ Iterator'.n = Iterator.n /\ Iterator'.done /\ ~Iterator'.err
EndedFailed == ~Iterator'.nil /\ Iterator'.n = Iterator.n /\ Iterator'.done /\ Iterator'.err

\* a Scan that succeeds finds the stream in HasRow
ScanOnlyInHasRow ==
    (impl \in {"QueryRows", "DialectorGo"} /\ ret.op = "Scan" /\ ret.ok) => current

\* C18 as stated: Next returns true exactly when the iterator yielded a row,
\* false with Err() nil when it ended without error, false with Err() set
\* when it reported an error; Failed is left by no step; Scan succeeds only
\* in HasRow.
C18_AsStated ==
    /\ [][NextStep =>
            /\ ret'.ok <=> Yielded
            /\ EndedClean => (~ret'.ok /\ err' = NoErr)
            /\ EndedFailed => (~ret'.ok /\ IsErr(err'))
            /\ (ret.op = "Next" /\ Phase(ret.ok, err) = "Failed") =>
                   Phase(ret'.ok, err') = "Failed"]_vars
    /\ []ScanOnlyInHasRow

\* C18 (amended): as stated, but an error once recorded stays: after the
\* iterator ended without error Err() is nil only if no error was recorded
\* before, and after a nil row (Failed) the stream may go on to HasRow with
\* Err() still set; Failed is final when the iterator itself has ended.
C18_StreamStates ==
    /\ [][NextStep =>
            /\ ret'.ok <=> Yielded
            /\ EndedClean => (~ret'.ok /\ (err = NoErr => err' = NoErr))
            /\ EndedFailed => (~ret'.ok /\ IsErr(err'))
            /\ IsErr(err) => IsErr(err')
            /\ (ret.op = "Next" /\ Phase(ret.ok, err) = "Failed" /\ Iterator.done) =>
                   Phase(ret'.ok, err') = "Failed"]_vars
    /\ []ScanOnlyInHasRow

\* A QueryRows stream delivered a row and then failed on an iterator error.
C18_Witness ==
    /\ impl = "QueryRows"
    /\ pulls >= 1
    /\ ret = Returned("Next", FALSE, NoErr)
    /\ Iterator.done /\ Iterator.err
    /\ err = E("iterErr", "", "", "")

\* the kinds of error a failed coercion of one column ends Scan with
CoercionKinds == {"coercion", "unsupported", "timeParse"}

\* C19 as stated: a Scan that fails on the coercion of a column returns an
\* error naming the column and the observed and the target kind, and no Scan
\* moves the iterator.
C19_CoercionErrorNamesColumn ==
    /\ []((impl \in {"QueryRows", "DialectorGo"} /\ ret.op = "Scan" /\ ret.err.kind \in CoercionKinds)
            => (ret.err.col # "" /\ ret.err.src # "" /\ ret.err.dst # ""))
    /\ [][(ret'.op = "Scan" /\ ret' # ret) => Iterator' = Iterator]_vars

(***************************************************************************)
(* The classes of the error translator.                                    *)
(***************************************************************************)
\* the text holds the phrase, in whatever letter case
SaysAnyCase(phrase, msg) == \E i \in DOMAIN msg : Lower(msg[i]) = phrase
\* the text holds <what> "<name>" not found in whatever letter case, the name
\* being one or more characters of one line
SaysNotFoundAnyCase(what, msg) ==
    \E i \in DOMAIN msg : \E j \in (i + 3)..Len(msg) :
        /\ Lower(msg[i]) = what /\ msg[i + 1] = Quote
        /\ msg[j] = Quote /\ j + 1 <= Len(msg) /\ Lower(msg[j + 1]) = " not found"
        /\ \A k \in (i + 2)..(j - 1) : msg[k] # LineBreak

\* the class of the earliest pattern the text matches
EarliestClass(msg) ==
    IF SaysNotFoundAnyCase("measurement ", msg) \/ SaysNotFoundAnyCase("database ", msg)
    THEN "NotFound"
    ELSE IF SaysAnyCase("duplicate data", msg) THEN "Conflict"
    ELSE IF SaysAnyCase("field type conflict", msg) THEN "SchemaConflict"
    ELSE IF SaysAnyCase("insufficient permissions", msg) THEN "PermissionDenied"
    ELSE IF SaysAnyCase("syntax error", msg) THEN "InvalidQuery"
    ELSE IF SaysAnyCase("connection refused", msg) \/ SaysAnyCase("server unavailable", msg)
    THEN "Unavailable"
    ELSE "Unmatched"

\* the result is what the class asks for
Conforms(in, out, class) ==
    CASE class = "NotFound" -> IsNotFound(out)
      [] class = "Conflict" -> out = ErrorsNew("ERROR: duplicate data detected (23000)")
      [] class = "SchemaConflict" -> out = SchemaConflict
      [] class = "PermissionDenied" -> out = ErrorsNew("ERROR: insufficient permissions (42000)")
      [] class = "InvalidQuery" -> out = ErrorsNew("ERROR: syntax error (42000)")
      [] class = "Unavailable" -> out = ErrorsNew("ERROR: server unavailable (08S01)")
      [] OTHER -> out = in

\* two calls on one error give one result
SameTextSameClass ==
    [][(terr.done /\ terr'.done /\ terr'.in = terr.in) => terr'.out = terr.out]_vars

\* C20 as stated: the class given is that of the earliest pattern the text
\* matches, letter case ignored, for every error; equal errors are classified
\* alike on every call.
C20_AsStated ==
    /\ [](terr.done => Conforms(terr.in, terr.out, EarliestClass(terr.in.msg)))
    /\ SameTextSameClass

\* C20 (amended): as stated, for every error that does not already wrap
\* gorm.ErrRecordNotFound; such an error is returned as it is, whatever its
\* text says.
C20_FirstMatchWins ==
    /\ [](terr.done =>
            IF IsNotFound(terr.in) THEN terr.out = terr.in
            ELSE Conforms(terr.in, terr.out, EarliestClass(terr.in.msg)))
    /\ SameTextSameClass

\* A text in capitals that names a duplicate and, behind it, a field type
\* conflict was classified as the duplicate.
C20_Witness ==
    /\ terr.done
    /\ terr.in.msg = <<"DUPLICATE DATA", "field type conflict">>
    /\ terr.out = ErrorsNew("ERROR: duplicate data detected (23000)")

====
